---------------------------- MODULE Spec2Model ----------------------------
(***************************************************************************)
(* A model of the generic bounded worker pool of                           *)
(* pkg/concurrency/workerpool/pool.go (WorkerPool[T, R]).                   *)
(*                                                                         *)
(* Go channels are modelled as a sequence (the buffer), a closed flag and  *)
(* a capacity; a select statement is a nondeterministic choice among the   *)
(* cases that can proceed; a Go run-time panic that nobody recovers        *)
(* (send on / close of a closed channel) ends the process and is recorded  *)
(* in `crashed`.  Goroutines are processes with a program counter.         *)
(***************************************************************************)
EXTENDS Integers, Sequences, FiniteSets, Bags

\* ------------------------------------------------------------------ bounds
\* the largest taskBuffer given to NewWorkerPool
MaxBuffer == 2
\* the largest worker count (runtime.NumCPU() or WithWorkers argument)
MaxWorkers == 2
\* the number of Submit / SubmitWait calls made on the pool
MaxTasks == 2
\* the number of Stop / GracefulStop calls made on the pool
MaxStopCalls == 2

Tasks == 1..MaxTasks
\* worker goroutine ids; Start's loop index i runs over 0..numWorkers-1
WorkerIds == 0..MaxWorkers
\* what a caller-supplied workerFunc can do with a task
Outcomes == {"ok", "err", "panic"}

VARIABLES
    parentDone,     \* the context handed to NewWorkerPool is cancelled
    bornCancelled,  \* that context was already cancelled at NewWorkerPool
    cancelled,      \* wp.cancel() has been called
    taskBuffer,     \* capacity of taskChan and resultChan
    numWorkers,     \* wp.numWorkers
    started,        \* Start has been called
    wwArg,          \* argument of the latest WithWorkers call (0: none pending)
    taskChan,       \* buffer of wp.taskChan
    taskClosed,     \* wp.taskChan is closed
    resultChan,     \* buffer of wp.resultChan
    resultClosed,   \* wp.resultChan is closed
    wg,             \* counter of wp.wg
    wpc,            \* worker goroutine -> "unborn" | "select" | "exec" | "publish" | "done"
    wtask,          \* worker goroutine -> task it holds (0: none)
    wres,           \* worker goroutine -> Result it is about to publish
    cpc,            \* call on task t -> position of the Submit / SubmitWait call
    cret,           \* call on task t -> (value, error) returned by SubmitWait
    spc,            \* position of the goroutine that calls Stop / GracefulStop
    ops,            \* the Stop / GracefulStop calls made so far, in order
    gsAccepted,     \* tasks accepted when GracefulStop was first called
    observed,       \* bag of the Results read by the GetResults consumer
    consumerClosed, \* the consumer has seen resultChan closed
    invoked,        \* task -> number of workerFunc invocations
    fnOut,          \* task -> what workerFunc did with it
    published,      \* bag of the Results sent on resultChan
    accepted,       \* tasks sent on taskChan
    probedTasks,    \* tasks taken off taskChan by GracefulStop's probe
    probedResults,  \* Results taken off resultChan by Stop's / GracefulStop's probe
    crashed,        \* "none", or the run-time panic that ended the process
    order,          \* log of the order of enqueues and of publications (kept when on)
    bridge,         \* a Bridge call and its orDone goroutine (bridge.go)
    dowork,         \* a DoWork call (dowork.go)
    dwbuf,          \* a DoWorkBuffered call (dowork.go)
    bucket,         \* a LeakyBucket (limiter.go)
    retry,          \* a Retry call (retry.go)
    trx,            \* calls of TransactionManager.Do (manager.go)
    cache           \* a Cache (cache.go)

\* the worker pool
poolVars == <<parentDone, bornCancelled, cancelled, taskBuffer, numWorkers,
              started, wwArg, taskChan,
              taskClosed, resultChan, resultClosed, wg, wpc, wtask, wres,
              cpc, cret, spc, ops, gsAccepted, observed,
              consumerClosed, invoked, fnOut, published, accepted, probedTasks,
              probedResults, crashed, order>>
\* the components that are independent of the worker pool
others == <<bridge, dowork, dwbuf, bucket, retry, trx, cache>>
vars == <<poolVars, others>>

\* groups for UNCHANGED
ctxVars == <<parentDone, bornCancelled, cancelled>>
cfgVars == <<taskBuffer, numWorkers, started, wwArg>>
taskChVars == <<taskChan, taskClosed>>
resChVars == <<resultChan, resultClosed>>
workerVars == <<wpc, wtask, wres>>
callVars == <<cpc, cret>>
stopVars == <<spc, ops, gsAccepted>>
consVars == <<observed, consumerClosed>>
fnVars == <<invoked, fnOut>>
probed == <<probedTasks, probedResults>>

\* ------------------------------------------------------------ data
\* Result[R]{Value, Err}; `task` is the task the Result was computed for
\* (bookkeeping, not a field of the Go struct).
NoResult == [Value |-> 0, Err |-> "none", task |-> 0]

\* a Result that leaves out the error workerFunc returned
FuncResultDropsError(t, o) ==
    [Value |-> IF o = "ok" THEN t ELSE 0, Err |-> "nil", task |-> t]

\* a Result that leaves out the value workerFunc returned
FuncResultDropsValue(t, o) ==
    [Value |-> 0, Err |-> IF o = "ok" THEN "nil" ELSE "task error", task |-> t]

\* pool.go:94  Result[R]{Value: result, Err: err} for what workerFunc returned
FuncResult(t, o) ==
    IF o = "ok" THEN [Value |-> t, Err |-> "nil", task |-> t]
                ELSE [Value |-> 0, Err |-> "task error", task |-> t]

\* a recover handler that publishes a success Result
PanicResultAsSuccess(t) == [Value |-> t, Err |-> "nil", task |-> t]

\* pool.go:78-82  Result[R]{Err: fmt.Errorf("panic in worker: %v", r)}
PanicResult(t) == [Value |-> 0, Err |-> "panic in worker", task |-> t]

\* pool.go:124,133,146  (empty, wp.ctx.Err())
CancelResult == [Value |-> 0, Err |-> "context canceled", task |-> 0]

\* wp.ctx is derived from the caller's context (pool.go:34): it is done when
\* the parent is done or wp.cancel() was called
CtxDone == parentDone \/ cancelled

Alive == crashed = "none"

\* a channel that takes a value whatever its buffer holds
SendAlwaysReady(ch, closed) == TRUE

\* a send case of a select is ready: room in the buffer, or the channel is
\* closed (the send is chosen and panics)
SendReady(ch, closed) == closed \/ Len(ch) < taskBuffer

\* a Submit call is parked in its select: no case was ready when it was
\* evaluated, and the goroutine sleeps until the runtime wakes it
Parked(t) == cpc[t] = "submit_parked"
ParkedSenders == {t \in Tasks : Parked(t)}


\* --------------------------------------------------- order of events
\* A log of the order in which tasks enter wp.taskChan (pool.go:111,134)
\* and Results enter wp.resultChan (pool.go:82,94).  It is kept only by a
\* program that switches it on, and records what the step did to
\* `accepted` and `published`.
OrderOff == [on |-> FALSE, enq |-> <<>>, pub |-> <<>>]
OrderOn == [on |-> TRUE, enq |-> <<>>, pub |-> <<>>]
\* the task this step enqueued, as a sequence of length 0 or 1
NewlyAccepted ==
    LET d == accepted' \ accepted
    IN IF d = {} THEN <<>> ELSE <<CHOOSE t \in d : TRUE>>
\* the task whose Result this step published, as a sequence of length 0 or 1
NewlyPublished ==
    LET d == BagToSet(published' (-) published)
    IN IF d = {} THEN <<>> ELSE <<(CHOOSE r \in d : TRUE).task>>
LogOrder ==
    order' = IF order.on
               THEN [order EXCEPT !.enq = @ \o NewlyAccepted,
                                  !.pub = @ \o NewlyPublished]
               ELSE order

\* ------------------------------------------------------ construction
\* pool.go:27-43  NewWorkerPool: empty channels of capacity taskBuffer, a
\* context derived from the caller's (possibly already cancelled) context,
\* numWorkers = max(runtime.NumCPU(), 1)
NewWorkerPool ==
    /\ parentDone \in BOOLEAN
    /\ bornCancelled = parentDone
    /\ cancelled = FALSE
    /\ taskBuffer \in 0..MaxBuffer
    /\ numWorkers \in 1..MaxWorkers
    /\ started = FALSE
    /\ wwArg = 0
    /\ taskChan = <<>>
    /\ taskClosed = FALSE
    /\ resultChan = <<>>
    /\ resultClosed = FALSE
    /\ wg = 0
    /\ wpc = [w \in WorkerIds |-> "unborn"]
    /\ wtask = [w \in WorkerIds |-> 0]
    /\ wres = [w \in WorkerIds |-> NoResult]
    /\ cpc = [t \in Tasks |-> "none"]
    /\ cret = [t \in Tasks |-> NoResult]
    /\ spc = "idle"
    /\ ops = <<>>
    /\ gsAccepted = {}
    /\ observed = EmptyBag
    /\ consumerClosed = FALSE
    /\ invoked = [t \in Tasks |-> 0]
    /\ fnOut = [t \in Tasks |-> "none"]
    /\ published = EmptyBag
    /\ accepted = {}
    /\ probedTasks = {}
    /\ probedResults = {}
    /\ crashed = "none"

\* a program that uses the worker pool and none of the other components
Init ==
    /\ NewWorkerPool /\ order = OrderOff
    /\ bridge = "unused" /\ dowork = "unused" /\ dwbuf = "unused"
    /\ bucket = "unused" /\ retry = "unused"
    /\ trx = "unused" /\ cache = "unused"

\* a WithWorkers that takes every non-negative n
NewCountNonNegative(cur, n) == IF n >= 0 THEN n ELSE cur

\* pool.go:47-49  if n > 0 { wp.numWorkers = n }
NewCount(cur, n) == IF n > 0 THEN n ELSE cur

\* pool.go:46-51  WithWorkers(n): numWorkers = n only when n > 0.  It is
\* called in the configuration phase, before Start.
WithWorkers(n) ==
    /\ Alive /\ ~started
    /\ numWorkers' = NewCount(numWorkers, n)
    /\ wwArg' = n
    /\ UNCHANGED <<others, ctxVars, taskBuffer, started, taskChVars, resChVars, wg,
                   workerVars, callVars, stopVars, consVars, fnVars,
                   published, accepted, probed, crashed>>
    /\ LogOrder

\* a Start loop that runs once too often (i <= numWorkers)
SpawnSetOffByOne(n) == 0..n

\* pool.go:57  for i := 0; i < wp.numWorkers; i++ { go func() ... }
SpawnSet(n) == 0..(n - 1)

\* pool.go:54-102  Start: wg.Add(numWorkers) and one goroutine per index,
\* each entering its for/select loop.  Start ends the configuration phase;
\* every other operation below is made on a started pool.
Start ==
    /\ Alive /\ ~started
    /\ started' = TRUE
    /\ wwArg' = 0
    /\ wg' = wg + numWorkers
    /\ wpc' = [w \in WorkerIds |->
                 IF w \in SpawnSet(numWorkers) THEN "select" ELSE wpc[w]]
    /\ UNCHANGED <<others, ctxVars, taskBuffer, numWorkers, taskChVars, resChVars,
                   wtask, wres, callVars, stopVars, consVars,
                   fnVars, published, accepted, probed, crashed>>
    /\ LogOrder

\* a Submit whose select does not watch the context
OnCancelIgnored(pc) == pc

\* pool.go:108-110  case <-wp.ctx.Done(): return false, in a Submit that is
\* parked when the context is cancelled: the close of the done channel
\* wakes the select with this case chosen
OnCancel(pc) == IF pc = "submit_parked" THEN "ret_false" ELSE pc

\* the calls after the cancellation of wp.ctx (a sender parked when taskChan
\* was closed has been woken by that close already)
Cancelling == [t \in DOMAIN cpc |-> IF taskClosed THEN cpc[t] ELSE OnCancel(cpc[t])]

\* the caller cancels the context it gave to NewWorkerPool
CancelParent ==
    /\ Alive /\ started /\ ~parentDone
    /\ parentDone' = TRUE
    /\ cpc' = Cancelling
    /\ UNCHANGED <<others, bornCancelled, cancelled, cfgVars, taskChVars, resChVars, wg, workerVars,
                   cret, stopVars, consVars, fnVars, published, accepted,
                   probed, crashed>>
    /\ LogOrder

\* ------------------------------------------------------------ workers
\* pool.go:59,63-65  case <-wp.ctx.Done(): return  (deferred wg.Done())
WorkerExitOnDone(w) ==
    /\ Alive /\ wpc[w] = "select"
    /\ CtxDone
    /\ wpc' = [wpc EXCEPT ![w] = "done"]
    /\ wg' = wg - 1
    /\ UNCHANGED <<others, ctxVars, cfgVars, taskChVars, resChVars, wtask, wres, callVars, stopVars, consVars, fnVars,
                   published, accepted, probed, crashed>>
    /\ LogOrder

\* pool.go:67-70  case task, ok := <-wp.taskChan with ok = false: return
WorkerExitOnClosed(w) ==
    /\ Alive /\ wpc[w] = "select"
    /\ taskClosed /\ taskChan = <<>>
    /\ wpc' = [wpc EXCEPT ![w] = "done"]
    /\ wg' = wg - 1
    /\ UNCHANGED <<others, ctxVars, cfgVars, taskChVars, resChVars, wtask, wres, callVars, stopVars, consVars, fnVars,
                   published, accepted, probed, crashed>>
    /\ LogOrder

\* a receive that leaves the value in the buffer
DequeuedPeek(ch) == ch

\* what a receive leaves in the buffer of a channel
Dequeued(ch) == Tail(ch)

\* pool.go:67,183  a receive from the full buffer of taskChan while senders
\* are parked wakes one of them: its task takes the freed slot and its
\* Submit returns true (0: no sender is woken)
Woken == IF ParkedSenders # {} /\ ~taskClosed THEN ParkedSenders ELSE {0}
AfterReceive(ch, p) == IF p = 0 THEN Dequeued(ch) ELSE Append(Dequeued(ch), p)
AfterWake(p) == IF p = 0 THEN cpc ELSE [cpc EXCEPT ![p] = "ret_true"]

\* pool.go:67,88  case task, ok := <-wp.taskChan with a buffered task: the
\* worker takes the head of the queue and calls workerFunc(wp.ctx, task)
WorkerDequeue(w) ==
    /\ Alive /\ wpc[w] = "select"
    /\ taskChan # <<>>
    /\ \E p \in Woken :
        /\ taskChan' = AfterReceive(taskChan, p)
        /\ cpc' = AfterWake(p)
        /\ accepted' = accepted \cup (ParkedSenders \cap {p})
    /\ LET t == Head(taskChan) IN
        /\ wtask' = [wtask EXCEPT ![w] = t]
        /\ invoked' = [invoked EXCEPT ![t] = @ + 1]
    /\ wpc' = [wpc EXCEPT ![w] = "exec"]
    /\ UNCHANGED <<others, ctxVars, cfgVars, taskClosed, resChVars, wg, wres, cret, stopVars, consVars, fnOut,
                   published, probed, crashed>>
    /\ LogOrder

\* pool.go:74-88  workerFunc returns (result, err), or panics and the
\* deferred recover() builds the panic Result; either way the worker goes
\* on to the select that publishes
WorkerFuncReturns(w, o) ==
    /\ Alive /\ wpc[w] = "exec"
    /\ LET t == wtask[w] IN
        /\ fnOut' = [fnOut EXCEPT ![t] = o]
        /\ wres' = [wres EXCEPT ![w] =
                      IF o = "panic" THEN PanicResult(t) ELSE FuncResult(t, o)]
    /\ wpc' = [wpc EXCEPT ![w] = "publish"]
    /\ UNCHANGED <<others, ctxVars, cfgVars, taskChVars, resChVars, wg, wtask,
                   callVars, stopVars, consVars, invoked, published,
                   accepted, probed, crashed>>
    /\ LogOrder

\* a worker that does not survive a recovered panic
AfterTaskExitOnPanic(r) == IF r.Err = "panic in worker" THEN "done" ELSE "select"

\* pool.go:61,74-97  once the inner func() has returned (Result sent or
\* dropped, after a normal return or a recovered panic) the for loop
\* iterates: the worker is back at its select
AfterTask(r) == "select"

\* pool.go:79-81, 91-93  case <-wp.ctx.Done(): return  -- the Result is dropped
WorkerPublishDrop(w) ==
    /\ Alive /\ wpc[w] = "publish"
    /\ CtxDone
    /\ wpc' = [wpc EXCEPT ![w] = AfterTask(wres[w])]
    /\ wtask' = [wtask EXCEPT ![w] = 0]
    /\ wres' = [wres EXCEPT ![w] = NoResult]
    /\ UNCHANGED <<others, ctxVars, cfgVars, taskChVars, resChVars, wg,
                   callVars, stopVars, consVars, fnVars, published, accepted,
                   probed, crashed>>
    /\ LogOrder

\* pool.go:82, 94  case wp.resultChan <- Result[R]{...}: buffered send (a
\* send on a closed channel panics outside the recover handler's reach)
WorkerPublishSend(w) ==
    /\ Alive /\ wpc[w] = "publish"
    /\ SendReady(resultChan, resultClosed)
    /\ IF resultClosed
         THEN /\ crashed' = "send on closed channel"
              /\ UNCHANGED <<resultChan, published, workerVars>>
         ELSE /\ resultChan' = Append(resultChan, wres[w])
              /\ published' = published (+) SetToBag({wres[w]})
              /\ wpc' = [wpc EXCEPT ![w] = AfterTask(wres[w])]
              /\ wtask' = [wtask EXCEPT ![w] = 0]
              /\ wres' = [wres EXCEPT ![w] = NoResult]
              /\ UNCHANGED crashed
    /\ UNCHANGED <<others, ctxVars, cfgVars, taskChVars, resultClosed, wg, callVars,
                   stopVars, consVars, fnVars, accepted, probed>>
    /\ LogOrder

\* -------------------------------------------------------- submission
\* a call is about to evaluate Submit's select
InSubmit(t) == cpc[t] \in {"submit", "submit_late", "submit_closed"}
\* a call is in Submit's or SubmitWait's sending select
Sending(t) == InSubmit(t) \/ Parked(t) \/ cpc[t] = "sw_send"
\* a sender handed its task over: Submit returns true, SubmitWait goes on
AfterSend(pc) == IF pc = "sw_send" THEN "sw_wait" ELSE "ret_true"

\* calls are numbered in the order they start; the task of call t is t
NextCall(t) == cpc[t] = "none" /\ \A u \in Tasks : u < t => cpc[u] # "none"

\* Two selects that both hold the case <-wp.ctx.Done() can meet on an
\* unbuffered channel only while the context is live: once it is done a
\* select never parks, and the close of the done channel has claimed every
\* select parked before.
Rendezvous == taskBuffer = 0 /\ ~CtxDone

\* pool.go:67,111,134  unbuffered taskChan (taskBuffer = 0): a sender blocked
\* in Submit's or SubmitWait's select hands its task to a worker waiting in
\* its select; Submit returns true, SubmitWait goes on to wait for a Result
WorkerHandoff(w, t) ==
    /\ Alive /\ wpc[w] = "select"
    /\ Rendezvous /\ ~taskClosed
    /\ Sending(t)
    /\ cpc' = [cpc EXCEPT ![t] = AfterSend(@)]
    /\ accepted' = accepted \cup {t}
    /\ wtask' = [wtask EXCEPT ![w] = t]
    /\ invoked' = [invoked EXCEPT ![t] = @ + 1]
    /\ wpc' = [wpc EXCEPT ![w] = "exec"]
    /\ UNCHANGED <<others, ctxVars, cfgVars, taskChVars, resChVars, wg, wres, cret, stopVars, consVars, fnOut,
                   published, probed, crashed>>
    /\ LogOrder

\* pool.go:106-107  Submit(task) is called and reaches its select; a call
\* that starts with the context already done is at "submit_late", one that
\* starts with taskChan closed and the context live at "submit_closed" (the
\* same place in the code, told apart to follow calls made after
\* cancellation and after GracefulStop's close)
SubmitCall(t) ==
    /\ Alive /\ started /\ NextCall(t)
    /\ cpc' = [cpc EXCEPT ![t] = IF CtxDone THEN "submit_late"
                                 ELSE IF taskClosed THEN "submit_closed"
                                 ELSE "submit"]
    /\ UNCHANGED <<others, ctxVars, cfgVars, taskChVars, resChVars, wg, workerVars,
                   cret, stopVars, consVars, fnVars, published, accepted,
                   probed, crashed>>
    /\ LogOrder

\* pool.go:108-110  case <-wp.ctx.Done(): return false
SubmitCtxDone(t) ==
    /\ Alive /\ InSubmit(t)
    /\ CtxDone
    /\ cpc' = [cpc EXCEPT ![t] = "ret_false"]
    /\ UNCHANGED <<others, ctxVars, cfgVars, taskChVars, resChVars, wg, workerVars, cret, stopVars, consVars, fnVars, published,
                   accepted, probed, crashed>>
    /\ LogOrder

\* pool.go:107-114  the select is evaluated with no case ready (context
\* live, taskChan open and without room): the goroutine parks
SubmitPark(t) ==
    /\ Alive /\ cpc[t] = "submit"
    /\ ~CtxDone /\ ~SendReady(taskChan, taskClosed)
    /\ cpc' = [cpc EXCEPT ![t] = "submit_parked"]
    /\ UNCHANGED <<others, ctxVars, cfgVars, taskChVars, resChVars, wg, workerVars, cret, stopVars, consVars, fnVars, published,
                   accepted, probed, crashed>>
    /\ LogOrder

\* pool.go:111-113  case wp.taskChan <- task: return true  (a send on the
\* closed taskChan panics, also in a sender that was parked when the
\* channel was closed)
SubmitSend(t) ==
    /\ Alive /\ (InSubmit(t) \/ (Parked(t) /\ taskClosed))
    /\ SendReady(taskChan, taskClosed)
    /\ IF taskClosed
         THEN /\ crashed' = "send on closed channel"
              /\ cpc' = [cpc EXCEPT ![t] = "panicked"]
              /\ UNCHANGED <<taskChan, accepted>>
         ELSE /\ taskChan' = Append(taskChan, t)
              /\ cpc' = [cpc EXCEPT ![t] = "ret_true"]
              /\ accepted' = accepted \cup {t}
              /\ UNCHANGED crashed
    /\ UNCHANGED <<others, ctxVars, cfgVars, taskClosed, resChVars, wg, workerVars, cret, stopVars, consVars, fnVars, published,
                   probed>>
    /\ LogOrder

\* a SubmitWait without its check of the context
NoEarlyReturn(done) == FALSE

\* pool.go:123  if wp.ctx.Err() != nil
EarlyReturn(done) == done

\* pool.go:119-131  SubmitWait(task) is called: with the context done it
\* returns (empty, wp.ctx.Err()) at once, otherwise it reaches its select
SubmitWaitCall(t) ==
    /\ Alive /\ started /\ NextCall(t)
    /\ IF EarlyReturn(CtxDone)
         THEN /\ cpc' = [cpc EXCEPT ![t] = "ret_val"]
              /\ cret' = [cret EXCEPT ![t] = CancelResult]
         ELSE /\ cpc' = [cpc EXCEPT ![t] = "sw_send"]
              /\ UNCHANGED cret
    /\ UNCHANGED <<others, ctxVars, cfgVars, taskChVars, resChVars, wg, workerVars,
                   stopVars, consVars, fnVars, published, accepted, probed,
                   crashed>>
    /\ LogOrder

\* pool.go:132-133  case <-wp.ctx.Done(): return empty, wp.ctx.Err()
SubmitWaitCtxDone(t) ==
    /\ Alive /\ cpc[t] = "sw_send"
    /\ CtxDone
    /\ cpc' = [cpc EXCEPT ![t] = "ret_val"]
    /\ cret' = [cret EXCEPT ![t] = CancelResult]
    /\ UNCHANGED <<others, ctxVars, cfgVars, taskChVars, resChVars, wg, workerVars, stopVars, consVars, fnVars, published, accepted,
                   probed, crashed>>
    /\ LogOrder

\* pool.go:134-139  case wp.taskChan <- task: the task is queued and the
\* goroutine that waits for a Result is started
SubmitWaitSend(t) ==
    /\ Alive /\ cpc[t] = "sw_send"
    /\ SendReady(taskChan, taskClosed)
    /\ IF taskClosed
         THEN /\ crashed' = "send on closed channel"
              /\ cpc' = [cpc EXCEPT ![t] = "panicked"]
              /\ UNCHANGED <<taskChan, accepted>>
         ELSE /\ taskChan' = Append(taskChan, t)
              /\ cpc' = [cpc EXCEPT ![t] = "sw_wait"]
              /\ accepted' = accepted \cup {t}
              /\ UNCHANGED crashed
    /\ UNCHANGED <<others, ctxVars, cfgVars, taskClosed, resChVars, wg, workerVars, cret, stopVars, consVars, fnVars, published,
                   probed>>
    /\ LogOrder

\* pool.go:141-144,151-152  case result, ok := <-wp.resultChan: with a
\* buffered Result (ok) it is passed on and returned; with the channel
\* closed and empty (!ok) nothing is passed on and `<-resultChan` at line 151
\* never returns
SubmitWaitReceive(t) ==
    /\ Alive /\ cpc[t] = "sw_wait"
    /\ resultChan # <<>> \/ resultClosed
    /\ IF resultChan # <<>>
         THEN /\ cret' = [cret EXCEPT ![t] = Head(resultChan)]
              /\ resultChan' = Dequeued(resultChan)
              /\ cpc' = [cpc EXCEPT ![t] = "ret_val"]
         ELSE /\ cpc' = [cpc EXCEPT ![t] = "hung"]
              /\ UNCHANGED <<cret, resultChan>>
    /\ UNCHANGED <<others, ctxVars, cfgVars, taskChVars, resultClosed, wg, workerVars, stopVars, consVars, fnVars, published, accepted,
                   probed, crashed>>
    /\ LogOrder

\* pool.go:145-146,151-152  case <-wp.ctx.Done(): the goroutine passes on
\* (empty, wp.ctx.Err()), which SubmitWait returns
SubmitWaitCancelled(t) ==
    /\ Alive /\ cpc[t] = "sw_wait"
    /\ CtxDone
    /\ cpc' = [cpc EXCEPT ![t] = "ret_val"]
    /\ cret' = [cret EXCEPT ![t] = CancelResult]
    /\ UNCHANGED <<others, ctxVars, cfgVars, taskChVars, resChVars, wg, workerVars, stopVars, consVars, fnVars, published, accepted,
                   probed, crashed>>
    /\ LogOrder

\* pool.go:82,94,141  unbuffered resultChan: a worker blocked in its
\* publishing select hands its Result to a waiting SubmitWait goroutine
PublishToSubmitWait(w, t) ==
    /\ Alive /\ wpc[w] = "publish"
    /\ Rendezvous /\ ~resultClosed
    /\ cpc[t] = "sw_wait"
    /\ cret' = [cret EXCEPT ![t] = wres[w]]
    /\ cpc' = [cpc EXCEPT ![t] = "ret_val"]
    /\ published' = published (+) SetToBag({wres[w]})
    /\ wpc' = [wpc EXCEPT ![w] = AfterTask(wres[w])]
    /\ wtask' = [wtask EXCEPT ![w] = 0]
    /\ wres' = [wres EXCEPT ![w] = NoResult]
    /\ UNCHANGED <<others, ctxVars, cfgVars, taskChVars, resChVars, wg, stopVars, consVars, fnVars, accepted, probed,
                   crashed>>
    /\ LogOrder

\* ------------------------------------------------- GetResults consumer
\* pool.go:156-158  a consumer ranging over GetResults() reads the next
\* buffered Result
Consume ==
    /\ Alive /\ started /\ ~consumerClosed
    /\ resultChan # <<>>
    /\ observed' = observed (+) SetToBag({Head(resultChan)})
    /\ resultChan' = Dequeued(resultChan)
    /\ UNCHANGED <<others, ctxVars, cfgVars, taskChVars, resultClosed, wg, workerVars,
                   callVars, stopVars, consumerClosed, fnVars, published,
                   accepted, probed, crashed>>
    /\ LogOrder

\* the consumer's range loop ends: resultChan is closed and empty
ConsumeClosed ==
    /\ Alive /\ started /\ ~consumerClosed
    /\ resultChan = <<>> /\ resultClosed
    /\ consumerClosed' = TRUE
    /\ UNCHANGED <<others, ctxVars, cfgVars, taskChVars, resChVars, wg, workerVars,
                   callVars, stopVars, observed, fnVars, published, accepted,
                   probed, crashed>>
    /\ LogOrder

\* pool.go:82,94  unbuffered resultChan: a worker in its publishing select
\* hands its Result to the consumer, which waits in a plain receive (its
\* range loop), so the send case is ready whatever the context
PublishToConsumer(w) ==
    /\ Alive /\ wpc[w] = "publish" /\ ~consumerClosed
    /\ taskBuffer = 0 /\ ~resultClosed
    /\ observed' = observed (+) SetToBag({wres[w]})
    /\ published' = published (+) SetToBag({wres[w]})
    /\ wpc' = [wpc EXCEPT ![w] = AfterTask(wres[w])]
    /\ wtask' = [wtask EXCEPT ![w] = 0]
    /\ wres' = [wres EXCEPT ![w] = NoResult]
    /\ UNCHANGED <<others, ctxVars, cfgVars, taskChVars, resChVars, wg,
                   callVars, stopVars, consumerClosed, fnVars, accepted,
                   probed, crashed>>
    /\ LogOrder

\* ------------------------------------------------------------ shutdown
\* pool.go:166-176, 182-192, 198-208  the "is it closed already" probe
\*     select { case _, ok := <-ch: if ok { close(ch) }  default: close(ch) }
\* The receive case is taken whenever the buffer holds a value (ok = true,
\* the value is discarded) or the channel is closed and empty (ok = false);
\* the default only when the channel is open and empty.
ProbeReceives(ch) == ch # <<>>
\* a probe that closes by default only, not after a received value
ProbeClosesByDefault(ch, closed) == ch = <<>> /\ ~closed
\* the probe goes on to close(ch): after a received value, or by default
ProbeCloses(ch, closed) == ch # <<>> \/ ~closed

\* the probe of resultChan followed by its close, as one step of Stop and of
\* GracefulStop (no worker is running any more: wg.Wait() has returned)
ProbeAndCloseResults ==
    /\ resultChan' = IF ProbeReceives(resultChan) THEN Dequeued(resultChan)
                                                  ELSE resultChan
    /\ probedResults' = IF ProbeReceives(resultChan)
                          THEN probedResults \cup {Head(resultChan)}
                          ELSE probedResults
    /\ IF ProbeCloses(resultChan, resultClosed)
         THEN IF resultClosed
                THEN /\ crashed' = "close of closed channel"
                     /\ UNCHANGED <<resultClosed, spc>>
                ELSE /\ resultClosed' = TRUE
                     /\ spc' = "idle"
                     /\ UNCHANGED crashed
         ELSE /\ spc' = "idle"
              /\ UNCHANGED <<resultClosed, crashed>>

\* a shutdown that does not wait for the workers
WaitReturnsAtOnce(n) == TRUE

\* pool.go:163,194  wp.wg.Wait() returns when the counter is 0
WaitReturns(n) == n = 0

\* one goroutine makes the Stop / GracefulStop calls, one after the other
MayCallStop == Alive /\ started /\ spc = "idle" /\ Len(ops) < MaxStopCalls

\* pool.go:161-163  Stop(): wp.cancel(), then wp.wg.Wait()
StopCall ==
    /\ MayCallStop
    /\ cancelled' = TRUE
    /\ cpc' = Cancelling
    /\ spc' = "stop_wait"
    /\ ops' = Append(ops, "Stop")
    /\ UNCHANGED <<others, parentDone, bornCancelled, cfgVars, taskChVars, resChVars,
                   wg, workerVars,
                   cret, gsAccepted, consVars, fnVars, published,
                   accepted, probed, crashed>>
    /\ LogOrder

\* pool.go:163-177  wg.Wait() returns (counter 0); resultChan is probed and
\* closed; Stop returns
StopFinish ==
    /\ Alive /\ spc = "stop_wait"
    /\ WaitReturns(wg)
    /\ ProbeAndCloseResults
    /\ UNCHANGED <<others, ctxVars, cfgVars, taskChVars, wg, workerVars, callVars,
                   ops, gsAccepted, consVars, fnVars, published, accepted,
                   probedTasks>>
    /\ LogOrder

\* pool.go:180-184,189-190  GracefulStop() is called and probes taskChan: a
\* queued task is received and discarded, then close follows; an open empty
\* taskChan takes the default, then close follows; a closed empty taskChan
\* (ok = false) is left alone
GracefulStopCall ==
    /\ MayCallStop
    /\ ops' = Append(ops, "GracefulStop")
    /\ gsAccepted' = IF \E i \in 1..Len(ops) : ops[i] = "GracefulStop"
                       THEN gsAccepted ELSE accepted
    /\ IF ProbeReceives(taskChan)
         THEN \E p \in Woken :
                /\ taskChan' = AfterReceive(taskChan, p)
                /\ cpc' = AfterWake(p)
                /\ accepted' = accepted \cup (ParkedSenders \cap {p})
         ELSE /\ Woken = {0}
              /\ UNCHANGED <<taskChan, cpc, accepted>>
    /\ probedTasks' = IF ProbeReceives(taskChan)
                        THEN probedTasks \cup {Head(taskChan)}
                        ELSE probedTasks
    /\ spc' = IF ProbeCloses(taskChan, taskClosed) THEN "gs_close" ELSE "gs_wait"
    /\ UNCHANGED <<others, ctxVars, cfgVars, taskClosed, resChVars, wg, workerVars,
                   cret, consVars, fnVars, published,
                   probedResults, crashed>>
    /\ LogOrder

\* pool.go:183  unbuffered taskChan: the probe's receive meets a sender
\* blocked in Submit's or SubmitWait's select and takes its task (ok = true)
GracefulStopCallHandoff(t) ==
    /\ MayCallStop
    /\ Rendezvous /\ ~taskClosed
    /\ Sending(t)
    /\ cpc' = [cpc EXCEPT ![t] = AfterSend(@)]
    /\ accepted' = accepted \cup {t}
    /\ ops' = Append(ops, "GracefulStop")
    /\ gsAccepted' = IF \E i \in 1..Len(ops) : ops[i] = "GracefulStop"
                       THEN gsAccepted ELSE accepted
    /\ probedTasks' = probedTasks \cup {t}
    /\ spc' = "gs_close"
    /\ UNCHANGED <<others, ctxVars, cfgVars, taskChVars, resChVars, wg, workerVars, cret, consVars, fnVars, published, probedResults,
                   crashed>>
    /\ LogOrder

\* pool.go:186, 191  close(wp.taskChan)  (closing a closed channel panics)
GracefulStopClose ==
    /\ Alive /\ spc = "gs_close"
    /\ IF taskClosed
         THEN /\ crashed' = "close of closed channel"
              /\ UNCHANGED <<taskClosed, spc>>
         ELSE /\ taskClosed' = TRUE
              /\ spc' = "gs_wait"
              /\ UNCHANGED crashed
    /\ UNCHANGED <<others, ctxVars, cfgVars, taskChan, resChVars, wg, workerVars,
                   callVars, ops, gsAccepted, consVars, fnVars, published,
                   accepted, probed>>
    /\ LogOrder

\* pool.go:194-209  wg.Wait() returns; wp.cancel(); resultChan is probed and
\* closed; GracefulStop returns
GracefulStopFinish ==
    /\ Alive /\ spc = "gs_wait"
    /\ WaitReturns(wg)
    /\ cancelled' = TRUE
    /\ ProbeAndCloseResults
    /\ UNCHANGED <<others, parentDone, bornCancelled, cfgVars, taskChVars, wg,
                   workerVars, callVars,
                   ops, gsAccepted, consVars, fnVars, published, accepted,
                   probedTasks>>
    /\ LogOrder

\* ------------------------------------------------------- specification
Next ==
    \/ \E n \in -1..MaxWorkers : WithWorkers(n)
    \/ Start
    \/ CancelParent
    \/ \E w \in WorkerIds :
          \/ WorkerExitOnDone(w)
          \/ WorkerExitOnClosed(w)
          \/ WorkerDequeue(w)
          \/ \E o \in Outcomes : WorkerFuncReturns(w, o)
          \/ WorkerPublishDrop(w)
          \/ WorkerPublishSend(w)
          \/ PublishToConsumer(w)
          \/ \E t \in Tasks : WorkerHandoff(w, t) \/ PublishToSubmitWait(w, t)
    \/ \E t \in Tasks :
          \/ SubmitCall(t)
          \/ SubmitPark(t)
          \/ SubmitCtxDone(t)
          \/ SubmitSend(t)
          \/ SubmitWaitCall(t)
          \/ SubmitWaitCtxDone(t)
          \/ SubmitWaitSend(t)
          \/ SubmitWaitReceive(t)
          \/ SubmitWaitCancelled(t)
          \/ GracefulStopCallHandoff(t)
    \/ Consume
    \/ ConsumeClosed
    \/ StopCall
    \/ StopFinish
    \/ GracefulStopCall
    \/ GracefulStopClose
    \/ GracefulStopFinish

Spec == Init /\ [][Next]_vars

\* ------------------------------------------- one worker, no cancellation
\* A program that starts the pool with one worker from a live context,
\* submits with Submit and SubmitWait, reads GetResults, and never cancels
\* or stops; it keeps the log of the order of enqueues and publications.
InitFifo ==
    /\ NewWorkerPool
    /\ order = OrderOn
    /\ ~parentDone /\ numWorkers = 1
    /\ bridge = "unused" /\ dowork = "unused" /\ dwbuf = "unused"
    /\ bucket = "unused" /\ retry = "unused"
    /\ trx = "unused" /\ cache = "unused"

NextFifo ==
    \/ Start
    \/ \E w \in WorkerIds :
          \/ WorkerDequeue(w)
          \/ \E o \in Outcomes : WorkerFuncReturns(w, o)
          \/ WorkerPublishSend(w)
          \/ PublishToConsumer(w)
          \/ \E t \in Tasks : WorkerHandoff(w, t) \/ PublishToSubmitWait(w, t)
    \/ \E t \in Tasks :
          \/ SubmitCall(t)
          \/ SubmitPark(t)
          \/ SubmitSend(t)
          \/ SubmitWaitCall(t)
          \/ SubmitWaitSend(t)
          \/ SubmitWaitReceive(t)
    \/ Consume

SpecFifo == InitFifo /\ [][NextFifo]_vars

\* ================================================================ Bridge
\* pkg/concurrency/bridge/bridge.go: Bridge(done, chanStream) and the
\* orDone(done, c) goroutine it starts for every inner channel.
\* ------------------------------------------------------------------ bounds
\* the number of inner channels the producer sends on chanStream
MaxChans == 2
\* the number of values the producer writes to a channel
MaxVals == 2
\* capacity of an inner channel: make(chan interface{}, 1) in the tests
InnerCap == 1

Chans == 1..MaxChans
\* the k-th value written to inner channel i
Val(i, k) == 10 * i + k

\* the variables a Bridge step leaves alone
notBridge == <<poolVars, dowork, dwbuf, bucket, retry, trx, cache>>

\* bridge.go:12-16  Bridge(done, chanStream) is called; its goroutine is at
\* the first select.  chanStream is unbuffered; inner channel i is the i-th
\* one the producer sends.
NewBridge(d) ==
    [done |-> d,                             \* done is closed
     nsent |-> 0,                            \* inner channels received from chanStream
     streamClosed |-> FALSE,                 \* chanStream is closed
     wrote |-> [i \in Chans |-> 0],          \* values written to inner channel i
     ibuf |-> [i \in Chans |-> <<>>],        \* buffer of inner channel i
     iclosed |-> [i \in Chans |-> FALSE],    \* inner channel i is closed
     pc |-> "recv",                          \* Bridge goroutine: recv | range | send | closed
     cur |-> 0,                              \* the inner channel being read
     val |-> 0,                              \* the value Bridge is sending
     opc |-> "none",                         \* orDone goroutine: none | select | send | closed
     oval |-> 0,                             \* the value orDone is sending
     olate |-> FALSE,                        \* done was closed when orDone was called
     out |-> <<>>]                           \* the values read from Bridge's output

InitBridge ==
    /\ NewWorkerPool /\ order = OrderOff /\ ~parentDone /\ taskBuffer = 0 /\ numWorkers = 1
    /\ \E d \in BOOLEAN : bridge = NewBridge(d)
    /\ dowork = "unused" /\ dwbuf = "unused"
    /\ bucket = "unused" /\ retry = "unused"
    /\ trx = "unused" /\ cache = "unused"

\* the producer writes the next value to inner channel i
BridgeWrite(i) ==
    /\ ~bridge.iclosed[i]
    /\ bridge.wrote[i] < MaxVals
    /\ Len(bridge.ibuf[i]) < InnerCap
    /\ bridge' = [bridge EXCEPT
                    !.ibuf[i] = Append(@, Val(i, bridge.wrote[i] + 1)),
                    !.wrote[i] = @ + 1]
    /\ UNCHANGED notBridge

\* the producer closes inner channel i
BridgeCloseInner(i) ==
    /\ ~bridge.iclosed[i]
    /\ bridge' = [bridge EXCEPT !.iclosed[i] = TRUE]
    /\ UNCHANGED notBridge

\* the producer closes chanStream
BridgeCloseStream ==
    /\ ~bridge.streamClosed
    /\ bridge' = [bridge EXCEPT !.streamClosed = TRUE]
    /\ UNCHANGED notBridge

\* the caller closes done
BridgeCloseDone ==
    /\ ~bridge.done
    /\ bridge' = [bridge EXCEPT !.done = TRUE]
    /\ UNCHANGED notBridge

\* bridge.go:25,29,35,50-53  case maybeStream, ok := <-chanStream with a
\* producer sending the next inner channel: Bridge calls orDone(done, stream),
\* whose goroutine reaches its select, and ranges over the returned channel
BridgeRecvStream ==
    /\ bridge.pc = "recv"
    /\ ~bridge.streamClosed /\ bridge.nsent < MaxChans
    /\ bridge' = [bridge EXCEPT !.nsent = @ + 1,
                                !.cur = bridge.nsent + 1,
                                !.pc = "range",
                                !.opc = "select",
                                !.olate = bridge.done]
    /\ UNCHANGED notBridge

\* bridge.go:19,25-28  chanStream is closed (ok = false): return, and the
\* deferred close(valStream)
BridgeRecvClosed ==
    /\ bridge.pc = "recv"
    /\ bridge.streamClosed
    /\ bridge' = [bridge EXCEPT !.pc = "closed"]
    /\ UNCHANGED notBridge

\* bridge.go:19,30-31  case <-done: return, and the deferred close(valStream)
BridgeRecvDone ==
    /\ bridge.pc = "recv"
    /\ bridge.done
    /\ bridge' = [bridge EXCEPT !.pc = "closed"]
    /\ UNCHANGED notBridge

\* bridge.go:54,58-59  orDone: case <-done: return, and the deferred
\* close(valStream)
OrDoneDone ==
    /\ bridge.opc = "select"
    /\ bridge.done
    /\ bridge' = [bridge EXCEPT !.opc = "closed"]
    /\ UNCHANGED notBridge

\* bridge.go:60,64  orDone: case v, ok := <-c with a buffered value
OrDoneRecv ==
    /\ bridge.opc = "select"
    /\ bridge.ibuf[bridge.cur] # <<>>
    /\ bridge' = [bridge EXCEPT !.oval = Head(bridge.ibuf[bridge.cur]),
                                !.ibuf[bridge.cur] = Dequeued(@),
                                !.opc = "send"]
    /\ UNCHANGED notBridge

\* bridge.go:54,60-63  orDone: c is closed and empty (ok = false): return,
\* and the deferred close(valStream)
OrDoneRecvClosed ==
    /\ bridge.opc = "select"
    /\ bridge.ibuf[bridge.cur] = <<>> /\ bridge.iclosed[bridge.cur]
    /\ bridge' = [bridge EXCEPT !.opc = "closed"]
    /\ UNCHANGED notBridge

\* bridge.go:64-67  orDone: case <-done in the sending select: the value is
\* dropped and the loop goes on
OrDoneSendDone ==
    /\ bridge.opc = "send"
    /\ bridge.done
    /\ bridge' = [bridge EXCEPT !.opc = "select", !.oval = 0]
    /\ UNCHANGED notBridge

\* bridge.go:35,65  orDone: case valStream <- v meets the receive of
\* Bridge's range loop (a plain receive, ready whatever done is)
OrDoneHandoff ==
    /\ bridge.opc = "send"
    /\ bridge.pc = "range"
    /\ bridge' = [bridge EXCEPT !.val = bridge.oval,
                                !.pc = "send",
                                !.opc = "select",
                                !.oval = 0]
    /\ UNCHANGED notBridge

\* a Bridge that returns after its first inner channel
AfterStreamReturn(pc) == "closed"

\* bridge.go:21,35,41-42  the range loop ends and the outer for goes on
AfterStream(pc) == "recv"

\* bridge.go:35  the channel returned by orDone is closed: the range ends
BridgeRangeEnd ==
    /\ bridge.pc = "range"
    /\ bridge.opc = "closed"
    /\ bridge' = [bridge EXCEPT !.pc = AfterStream(@), !.opc = "none"]
    /\ UNCHANGED notBridge

\* bridge.go:37  case valStream <- val meets a reader of Bridge's output
BridgeSendOut ==
    /\ bridge.pc = "send"
    /\ bridge' = [bridge EXCEPT !.out = Append(@, bridge.val),
                                !.val = 0,
                                !.pc = "range"]
    /\ UNCHANGED notBridge

\* a sending select without the case <-done
SendNeverAbandoned(done) == FALSE

\* bridge.go:38  case <-done in Bridge's sending select is ready
SendAbandoned(done) == done

\* bridge.go:19,38-39  case <-done: return, and the deferred close(valStream)
BridgeSendDone ==
    /\ bridge.pc = "send"
    /\ SendAbandoned(bridge.done)
    /\ bridge' = [bridge EXCEPT !.pc = "closed"]
    /\ UNCHANGED notBridge

\* the steps the Bridge goroutine and the orDone goroutine take on their
\* own (no producer and no reader of the output is needed)
BridgeAlone ==
    \/ BridgeRecvClosed \/ BridgeRecvDone \/ BridgeRangeEnd \/ BridgeSendDone
OrDoneAlone ==
    \/ OrDoneDone \/ OrDoneRecv \/ OrDoneRecvClosed \/ OrDoneSendDone
    \/ OrDoneHandoff

NextBridge ==
    \/ \E i \in Chans : BridgeWrite(i) \/ BridgeCloseInner(i)
    \/ BridgeCloseStream
    \/ BridgeCloseDone
    \/ BridgeRecvStream
    \/ BridgeRecvClosed
    \/ BridgeRecvDone
    \/ OrDoneDone
    \/ OrDoneRecv
    \/ OrDoneRecvClosed
    \/ OrDoneSendDone
    \/ OrDoneHandoff
    \/ BridgeRangeEnd
    \/ BridgeSendOut
    \/ BridgeSendDone

\* a goroutine that can take a step on its own is scheduled in the end
SpecBridge ==
    InitBridge /\ [][NextBridge]_vars
               /\ WF_vars(BridgeAlone) /\ WF_vars(OrDoneAlone)

\* ================================================================ DoWork
\* pkg/concurrency/dowork/dowork.go: DoWork(strings, done, processor).  The
\* input channel is buffered for MaxInputs values (make(chan string, 3) in the
\* tests); the k-th value written is k.
\* ------------------------------------------------------------------ bounds
\* the number of values the producer writes to the input channel
MaxInputs == 3

notDoWork == <<poolVars, bridge, dwbuf, bucket, retry, trx, cache>>

\* dowork.go:28-35  DoWork is called with k values already buffered in the
\* input channel and done closed or not; its goroutine is at the select
NewDoWork(d, k) ==
    [done |-> d,                     \* done is closed
     bornDone |-> d,                 \* done was closed when DoWork was called
     inp |-> [j \in 1..k |-> j],     \* buffer of the input channel
     inClosed |-> FALSE,             \* the input channel is closed
     wrote |-> k,                    \* values written to the input channel
     pc |-> "select",                \* goroutine: select | proc | closed
     invoked |-> <<>>]               \* the values processor was called with

InitDoWork ==
    /\ NewWorkerPool /\ order = OrderOff /\ ~parentDone /\ taskBuffer = 0 /\ numWorkers = 1
    /\ \E d \in BOOLEAN, k \in 0..MaxInputs : dowork = NewDoWork(d, k)
    /\ bridge = "unused" /\ dwbuf = "unused"
    /\ bucket = "unused" /\ retry = "unused"
    /\ trx = "unused" /\ cache = "unused"

\* the producer writes the next value to the input channel
DoWorkWrite ==
    /\ ~dowork.inClosed /\ dowork.wrote < MaxInputs
    /\ dowork' = [dowork EXCEPT !.inp = Append(@, dowork.wrote + 1),
                                !.wrote = @ + 1]
    /\ UNCHANGED notDoWork

\* the producer closes the input channel
DoWorkCloseInput ==
    /\ ~dowork.inClosed
    /\ dowork' = [dowork EXCEPT !.inClosed = TRUE]
    /\ UNCHANGED notDoWork

\* the caller closes done
DoWorkCloseDone ==
    /\ ~dowork.done
    /\ dowork' = [dowork EXCEPT !.done = TRUE]
    /\ UNCHANGED notDoWork

\* dowork.go:36-38,42-44  case <-done: return, and the deferred
\* close(completed)
DoWorkExitDone ==
    /\ dowork.pc = "select"
    /\ dowork.done
    /\ dowork' = [dowork EXCEPT !.pc = "closed"]
    /\ UNCHANGED notDoWork

\* dowork.go:36-38,45-49  the input channel is closed and empty: return
DoWorkExitClosed ==
    /\ dowork.pc = "select"
    /\ dowork.inp = <<>> /\ dowork.inClosed
    /\ dowork' = [dowork EXCEPT !.pc = "closed"]
    /\ UNCHANGED notDoWork

\* dowork.go:45,51  case s, ok := <-strings with a buffered value:
\* processor(s) is called
DoWorkReceive ==
    /\ dowork.pc = "select"
    /\ dowork.inp # <<>>
    /\ dowork' = [dowork EXCEPT !.invoked = Append(@, Head(dowork.inp)),
                                !.inp = Dequeued(@),
                                !.pc = "proc"]
    /\ UNCHANGED notDoWork

\* a goroutine that returns after its first value
AfterProcessorReturn(pc) == "closed"

\* dowork.go:40,51-53  after processor(s) the for loop goes on
AfterProcessor(pc) == "select"

\* dowork.go:51  processor(s) returns
DoWorkProcessed ==
    /\ dowork.pc = "proc"
    /\ dowork' = [dowork EXCEPT !.pc = AfterProcessor(@)]
    /\ UNCHANGED notDoWork

NextDoWork ==
    \/ DoWorkWrite
    \/ DoWorkCloseInput
    \/ DoWorkCloseDone
    \/ DoWorkExitDone
    \/ DoWorkExitClosed
    \/ DoWorkReceive
    \/ DoWorkProcessed

SpecDoWork == InitDoWork /\ [][NextDoWork]_vars

\* ======================================================== DoWorkBuffered
\* pkg/concurrency/dowork/dowork.go: DoWorkBuffered(strings, done,
\* processor, workers) with its semaphore channel sem of capacity workers.
\* ------------------------------------------------------------------ bounds
\* the largest `workers` argument
MaxSlots == 2

notDwBuf == <<poolVars, bridge, dowork, bucket, retry, trx, cache>>

\* dowork.go:106-119  DoWorkBuffered is called; its goroutine has made sem
\* and is at the select
NewDoWorkBuffered(d, k, n) ==
    [workers |-> n,                  \* the `workers` argument: cap(sem)
     done |-> d,                     \* done is closed
     inp |-> [j \in 1..k |-> j],     \* buffer of the input channel
     inClosed |-> FALSE,             \* the input channel is closed
     wrote |-> k,                    \* values written to the input channel
     pc |-> "select",                \* goroutine: select | acquire | closed
     sem |-> 0,                      \* len(sem)
     running |-> 0,                  \* goroutines inside processor(data)
     releasing |-> 0]                \* goroutines about to run <-sem

InitDoWorkBuffered ==
    /\ NewWorkerPool /\ order = OrderOff /\ ~parentDone /\ taskBuffer = 0 /\ numWorkers = 1
    /\ \E d \in BOOLEAN, k \in 0..MaxInputs, n \in 0..MaxSlots :
          dwbuf = NewDoWorkBuffered(d, k, n)
    /\ bridge = "unused" /\ dowork = "unused"
    /\ bucket = "unused" /\ retry = "unused"
    /\ trx = "unused" /\ cache = "unused"

\* the producer writes the next value to the input channel
DwBufWrite ==
    /\ ~dwbuf.inClosed /\ dwbuf.wrote < MaxInputs
    /\ dwbuf' = [dwbuf EXCEPT !.inp = Append(@, dwbuf.wrote + 1),
                              !.wrote = @ + 1]
    /\ UNCHANGED notDwBuf

\* the producer closes the input channel
DwBufCloseInput ==
    /\ ~dwbuf.inClosed
    /\ dwbuf' = [dwbuf EXCEPT !.inClosed = TRUE]
    /\ UNCHANGED notDwBuf

\* the caller closes done
DwBufCloseDone ==
    /\ ~dwbuf.done
    /\ dwbuf' = [dwbuf EXCEPT !.done = TRUE]
    /\ UNCHANGED notDwBuf

\* dowork.go:115,119,123-124  case <-done: return; sem and completed are
\* closed
DwBufExitDone ==
    /\ dwbuf.pc = "select"
    /\ dwbuf.done
    /\ dwbuf' = [dwbuf EXCEPT !.pc = "closed"]
    /\ UNCHANGED notDwBuf

\* dowork.go:115,119,125-128  the input channel is closed and empty: return
DwBufExitClosed ==
    /\ dwbuf.pc = "select"
    /\ dwbuf.inp = <<>> /\ dwbuf.inClosed
    /\ dwbuf' = [dwbuf EXCEPT !.pc = "closed"]
    /\ UNCHANGED notDwBuf

\* dowork.go:125,131  case s, ok := <-strings with a buffered value: the
\* goroutine goes on to take a slot of the semaphore
DwBufReceive ==
    /\ dwbuf.pc = "select"
    /\ dwbuf.inp # <<>>
    /\ dwbuf' = [dwbuf EXCEPT !.inp = Dequeued(@), !.pc = "acquire"]
    /\ UNCHANGED notDwBuf

\* a semaphore that always has room
SemRoomAlways(n, w) == TRUE

\* dowork.go:118,132  case sem <- struct{}{} is ready: fewer than cap(sem)
\* slots are taken
SemRoom(n, w) == n < w

\* dowork.go:132,138-141  the slot is taken and the goroutine that calls
\* processor(data) is started
DwBufAcquire ==
    /\ dwbuf.pc = "acquire"
    /\ SemRoom(dwbuf.sem, dwbuf.workers)
    /\ dwbuf' = [dwbuf EXCEPT !.sem = @ + 1,
                              !.running = @ + 1,
                              !.pc = "select"]
    /\ UNCHANGED notDwBuf

\* dowork.go:115,119,133-134  case <-done while waiting for a slot: return
DwBufAcquireDone ==
    /\ dwbuf.pc = "acquire"
    /\ dwbuf.done
    /\ dwbuf' = [dwbuf EXCEPT !.pc = "closed"]
    /\ UNCHANGED notDwBuf

\* dowork.go:140  processor(data) returns in one of the started goroutines
DwBufProcessed ==
    /\ dwbuf.running > 0
    /\ dwbuf' = [dwbuf EXCEPT !.running = @ - 1, !.releasing = @ + 1]
    /\ UNCHANGED notDwBuf

\* dowork.go:139  the deferred <-sem gives the slot back (on the closed and
\* empty sem the receive returns at once)
DwBufRelease ==
    /\ dwbuf.releasing > 0
    /\ dwbuf' = [dwbuf EXCEPT !.releasing = @ - 1,
                              !.sem = IF @ > 0 THEN @ - 1 ELSE 0]
    /\ UNCHANGED notDwBuf

NextDoWorkBuffered ==
    \/ DwBufWrite
    \/ DwBufCloseInput
    \/ DwBufCloseDone
    \/ DwBufExitDone
    \/ DwBufExitClosed
    \/ DwBufReceive
    \/ DwBufAcquire
    \/ DwBufAcquireDone
    \/ DwBufProcessed
    \/ DwBufRelease

SpecDoWorkBuffered == InitDoWorkBuffered /\ [][NextDoWorkBuffered]_vars

\* =========================================================== LeakyBucket
\* pkg/rate_limiter/limiter.go: LeakyBucket with its queue channel of
\* capacity `capacity` and the leak goroutine driven by a ticker.
\* ------------------------------------------------------------------ bounds
\* the largest capacity given to NewLeakyBucket
MaxCapacity == 2
\* the number of Allow calls made on the bucket
MaxAllow == 4
\* the number of ticks the leak goroutine receives
MaxTicks == 2

notBucket == <<poolVars, bridge, dowork, dwbuf, retry, trx, cache>>

\* limiter.go:21-37  NewLeakyBucket(rate, capacity): an empty queue and the
\* leak goroutine started (rate <= 0 or capacity <= 0 panics)
NewLeakyBucket(c) ==
    [capacity |-> c,             \* lb.capacity = cap(lb.queue)
     q |-> 0,                    \* len(lb.queue)
     stopped |-> FALSE,          \* lb.stopCh is closed
     lpc |-> "running",          \* leak goroutine: running | exited
     nAllow |-> 0,               \* Allow calls made
     nTick |-> 0,                \* ticks the leak goroutine received
     lastRet |-> "none",         \* what the latest Allow returned
     sinceTick |-> 0,            \* Allow calls that returned true since the latest tick
     afterFullTick |-> FALSE]    \* the latest operation was a tick on a full queue

InitBucket ==
    /\ NewWorkerPool /\ order = OrderOff /\ ~parentDone /\ taskBuffer = 0 /\ numWorkers = 1
    /\ \E c \in 1..MaxCapacity : bucket = NewLeakyBucket(c)
    /\ bridge = "unused" /\ dowork = "unused"
    /\ dwbuf = "unused" /\ retry = "unused"
    /\ trx = "unused" /\ cache = "unused"

\* a queue that takes one request more than its capacity
HasRoomOffByOne(n, c) == n <= c

\* limiter.go:44  case lb.queue <- struct{}{} is ready: the buffer has room
HasRoom(n, c) == n < c

\* limiter.go:42-49  Allow(): the non-blocking send on lb.queue
BucketAllow ==
    /\ bucket.nAllow < MaxAllow
    /\ bucket' = [bucket EXCEPT
                    !.nAllow = @ + 1,
                    !.q = IF HasRoom(bucket.q, bucket.capacity) THEN @ + 1 ELSE @,
                    !.lastRet = HasRoom(bucket.q, bucket.capacity),
                    !.sinceTick = IF HasRoom(bucket.q, bucket.capacity)
                                    THEN @ + 1 ELSE @,
                    !.afterFullTick = FALSE]
    /\ UNCHANGED notBucket

\* a leak that empties the queue
LeakedAll(n) == 0

\* limiter.go:63-67  select { case <-lb.queue: default: }
Leaked(n) == IF n > 0 THEN n - 1 ELSE n

\* limiter.go:62-67  case <-ticker.C: one queued request is removed, if any
BucketTick ==
    /\ bucket.lpc = "running"
    /\ bucket.nTick < MaxTicks
    /\ bucket' = [bucket EXCEPT
                    !.nTick = @ + 1,
                    !.q = Leaked(@),
                    !.sinceTick = 0,
                    !.afterFullTick = (bucket.q = bucket.capacity)]
    /\ UNCHANGED notBucket

\* limiter.go:74-76  Stop(): close(lb.stopCh)
BucketStop ==
    /\ ~bucket.stopped
    /\ bucket' = [bucket EXCEPT !.stopped = TRUE]
    /\ UNCHANGED notBucket

\* limiter.go:56,60-61  case <-lb.stopCh: return
BucketLeakExit ==
    /\ bucket.lpc = "running"
    /\ bucket.stopped
    /\ bucket' = [bucket EXCEPT !.lpc = "exited"]
    /\ UNCHANGED notBucket

NextBucket ==
    \/ BucketAllow
    \/ BucketTick
    \/ BucketStop
    \/ BucketLeakExit

SpecBucket == InitBucket /\ [][NextBucket]_vars

\* ================================================================= Retry
\* Retry[T](ctx, config, operation) of package retry (src/unnamed/part_003).
\* The k-th invocation of operation either succeeds with the value
\* Result(k) or fails with the error OpErr(k).  The delay arithmetic of
\* lines 43-48 and 56 only decides when time.After fires and is not kept.
\* ------------------------------------------------------------------ bounds
\* the largest config.MaxAttempts given to Retry
MaxAttempts == 3
\* the smallest config.MaxAttempts given to Retry (an int, not validated)
MinAttempts == -1

notRetry == <<poolVars, bridge, dowork, dwbuf, bucket, trx, cache>>

\* a nil error
NilErr == 0
\* ctx.Err() of a cancelled context
CtxErr == -1
\* the error returned by the k-th invocation of operation
OpErr(k) == k
\* the value returned by the k-th invocation of operation when it succeeds
Result(k) == k

\* part_003:18-21  the state of a call of Retry at its first loop test
NewRetry(n, c) ==
    [max |-> n,                  \* config.MaxAttempts
     cancelled |-> c,            \* ctx is cancelled
     attempt |-> 1,              \* the loop variable
     calls |-> 0,                \* invocations of operation begun
     outs |-> <<>>,              \* outs[k]: the k-th invocation succeeded
     pc |-> "check",             \* check | invoke | op | wait | ret
     result |-> 0,               \* var result T (its zero value)
     err |-> NilErr,             \* var err error
     ret |-> [val |-> 0, err |-> NilErr],   \* what Retry returned
     cPc |-> IF c THEN "check" ELSE "none", \* pc when ctx was cancelled
     cAttempt |-> IF c THEN 1 ELSE 0,       \* attempt when ctx was cancelled
     cCalls |-> 0]                          \* calls when ctx was cancelled

InitRetry ==
    /\ NewWorkerPool /\ order = OrderOff /\ ~parentDone /\ taskBuffer = 0 /\ numWorkers = 1
    /\ \E n \in MinAttempts..MaxAttempts, c \in BOOLEAN :
            retry = NewRetry(n, c)
    /\ bridge = "unused" /\ dowork = "unused"
    /\ dwbuf = "unused" /\ bucket = "unused"
    /\ trx = "unused" /\ cache = "unused"

\* the context is cancelled by its owner, at any moment of the call
RetryCancel ==
    /\ ~retry.cancelled
    /\ retry' = [retry EXCEPT !.cancelled = TRUE,
                              !.cPc = retry.pc,
                              !.cAttempt = retry.attempt,
                              !.cCalls = retry.calls]
    /\ UNCHANGED notRetry

\* part_003:24,60  attempt <= config.MaxAttempts is false: return result, err
RetryLoopEnd ==
    /\ retry.pc = "check"
    /\ retry.attempt > retry.max
    /\ retry' = [retry EXCEPT !.pc = "ret",
                              !.ret = [val |-> retry.result, err |-> retry.err]]
    /\ UNCHANGED notRetry

\* a check of the context that never sees the cancellation
CtxErrIgnored(c) == FALSE

\* part_003:26  ctx.Err() != nil
CtxErrSeen(c) == c

\* part_003:26-28  if ctx.Err() != nil { return result, ctx.Err() }
RetryCheckCancelled ==
    /\ retry.pc = "check"
    /\ retry.attempt <= retry.max
    /\ CtxErrSeen(retry.cancelled)
    /\ retry' = [retry EXCEPT !.pc = "ret",
                              !.ret = [val |-> retry.result, err |-> CtxErr]]
    /\ UNCHANGED notRetry

\* part_003:26-29  the check found the context live
RetryCheckPassed ==
    /\ retry.pc = "check"
    /\ retry.attempt <= retry.max
    /\ ~CtxErrSeen(retry.cancelled)
    /\ retry' = [retry EXCEPT !.pc = "invoke"]
    /\ UNCHANGED notRetry

\* part_003:31  operation() is called
RetryInvoke ==
    /\ retry.pc = "invoke"
    /\ retry' = [retry EXCEPT !.pc = "op", !.calls = @ + 1]
    /\ UNCHANGED notRetry

\* a test of the error that never finds it nil
NeverSucceeded(ok) == FALSE

\* part_003:32  err == nil
Succeeded(ok) == ok

\* part_003:31-57  operation returned: success is returned at once, the
\* failure of the last attempt is returned, any other failure goes to the
\* wait of line 51
RetryOpReturns(ok) ==
    /\ retry.pc = "op"
    /\ LET v == IF ok THEN Result(retry.calls) ELSE 0
           e == IF ok THEN NilErr ELSE OpErr(retry.calls)
       IN retry' = [retry EXCEPT
                      !.outs = Append(@, ok),
                      !.result = v,
                      !.err = e,
                      !.pc = IF Succeeded(ok) \/ retry.attempt = retry.max
                               THEN "ret" ELSE "wait",
                      !.ret = IF Succeeded(ok) THEN [val |-> v, err |-> NilErr]
                              ELSE IF retry.attempt = retry.max
                                     THEN [val |-> v, err |-> e]
                                     ELSE @]
    /\ UNCHANGED notRetry

\* part_003:52-53  case <-ctx.Done(): return result, ctx.Err()
RetryWaitDone ==
    /\ retry.pc = "wait"
    /\ retry.cancelled
    /\ retry' = [retry EXCEPT !.pc = "ret",
                              !.ret = [val |-> retry.result, err |-> CtxErr]]
    /\ UNCHANGED notRetry

\* part_003:54-57,24  case <-time.After(currentDelay), then attempt++
RetryTimer ==
    /\ retry.pc = "wait"
    /\ retry' = [retry EXCEPT !.pc = "check", !.attempt = @ + 1]
    /\ UNCHANGED notRetry

NextRetry ==
    \/ RetryCancel
    \/ RetryLoopEnd
    \/ RetryCheckCancelled
    \/ RetryCheckPassed
    \/ RetryInvoke
    \/ \E ok \in BOOLEAN : RetryOpReturns(ok)
    \/ RetryWaitDone
    \/ RetryTimer

SpecRetry == InitRetry /\ [][NextRetry]_vars

\* ==================================================== TransactionManager
\* pkg/trx/manager/manager.go: TransactionManager.Do, called MaxDo times
\* in a row on one manager.  BeginTx, Commit and Rollback of database/sql
\* either succeed or return an error; f returns ("res", nil), returns an
\* error, or panics.
\* ------------------------------------------------------------------ bounds
\* the number of calls of Do
MaxDo == 4

notTrx == <<poolVars, bridge, dowork, dwbuf, bucket, retry, cache>>

\* manager.go:16-20  NewTransactionManager(db): no call of Do made yet
NewTransactionManager ==
    [pc |-> "idle",         \* idle | begin | f | commit | rollback | ret | panicked
     ndo |-> 0,             \* calls of Do made
     begun |-> 0,           \* transactions BeginTx returned, over all calls
     commits |-> 0,         \* calls of trx.Commit, over all calls
     rollbacks |-> 0,       \* calls of trx.Rollback, over all calls
     cBegan |-> FALSE,      \* this call: BeginTx returned a transaction
     cF |-> "none",         \* this call: none | ok | err | panic, what f did
     cCommits |-> 0,        \* this call: calls of trx.Commit
     cRollbacks |-> 0,      \* this call: calls of trx.Rollback
     cEndFailed |-> FALSE,  \* this call: Commit / Rollback returned an error
     ret |-> [res |-> "nil", err |-> "nil"]]   \* what the call returned

InitTrx ==
    /\ NewWorkerPool /\ order = OrderOff /\ ~parentDone /\ taskBuffer = 0 /\ numWorkers = 1
    /\ trx = NewTransactionManager
    /\ bridge = "unused" /\ dowork = "unused" /\ dwbuf = "unused"
    /\ bucket = "unused" /\ retry = "unused" /\ cache = "unused"

\* manager.go:24  Do is called
TrxDo ==
    /\ trx.pc \in {"idle", "ret"}
    /\ trx.ndo < MaxDo
    /\ trx' = [trx EXCEPT !.pc = "begin", !.ndo = @ + 1,
                          !.cBegan = FALSE, !.cF = "none",
                          !.cCommits = 0, !.cRollbacks = 0,
                          !.cEndFailed = FALSE,
                          !.ret = [res |-> "nil", err |-> "nil"]]
    /\ UNCHANGED notTrx

\* manager.go:26-29  trx, err := trm.db.BeginTx(ctx, nil)
TrxBeginTx(ok) ==
    /\ trx.pc = "begin"
    /\ trx' = IF ok
                THEN [trx EXCEPT !.pc = "f", !.cBegan = TRUE, !.begun = @ + 1]
                ELSE [trx EXCEPT !.pc = "ret",
                                 !.ret = [res |-> "nil", err |-> "begin"]]
    /\ UNCHANGED notTrx

\* a manager that commits whatever f returned
AlwaysCommit(out) == IF out = "panic" THEN "panicked" ELSE "commit"

\* manager.go:36-37,45  if err != nil { Rollback } else Commit; a panic of
\* f leaves Do at once (there is no deferred call)
EndOp(out) ==
    IF out = "panic" THEN "panicked"
    ELSE IF out = "err" THEN "rollback" ELSE "commit"

\* manager.go:32-36  ctx = context.WithValue(...); res, err := f(ctx)
TrxF(out) ==
    /\ trx.pc = "f"
    /\ trx' = [trx EXCEPT !.cF = out, !.pc = EndOp(out)]
    /\ UNCHANGED notTrx

\* manager.go:45-50  trx.Commit(); its error is wrapped and returned with
\* a nil result
TrxCommit(ok) ==
    /\ trx.pc = "commit"
    /\ trx' = [trx EXCEPT !.pc = "ret",
                          !.commits = @ + 1, !.cCommits = @ + 1,
                          !.cEndFailed = ~ok,
                          !.ret = IF ok THEN [res |-> "res", err |-> "nil"]
                                  ELSE [res |-> "nil", err |-> "commit"]]
    /\ UNCHANGED notTrx

\* manager.go:36-42  trx.Rollback(); its error is joined with the error of f
TrxRollback(ok) ==
    /\ trx.pc = "rollback"
    /\ trx' = [trx EXCEPT !.pc = "ret",
                          !.rollbacks = @ + 1, !.cRollbacks = @ + 1,
                          !.cEndFailed = ~ok,
                          !.ret = [res |-> "nil",
                                   err |-> IF ok THEN "f" ELSE "rollback+f"]]
    /\ UNCHANGED notTrx

NextTrx ==
    \/ TrxDo
    \/ \E ok \in BOOLEAN : TrxBeginTx(ok)
    \/ \E out \in {"ok", "err", "panic"} : TrxF(out)
    \/ \E ok \in BOOLEAN : TrxCommit(ok)
    \/ \E ok \in BOOLEAN : TrxRollback(ok)

SpecTrx == InitTrx /\ [][NextTrx]_vars

\* ================================================================= Cache
\* pkg/cache/cache.go: Cache[K, V], a Go map behind Set and Get, used by
\* one goroutine (the type has no lock).
\* ------------------------------------------------------------------ bounds
\* keys are 1..MaxKeys
MaxKeys == 2
\* values are 0..MaxVal
MaxVal == 1
\* the number of Set calls
MaxSets == 3

\* the zero value of V
ZeroValue == 0
Keys == 1..MaxKeys
Values == ZeroValue..MaxVal

notCache == <<poolVars, bridge, dowork, dwbuf, bucket, retry, trx>>

\* cache.go:13-15  NewCache(): an empty store
NewCache ==
    [store |-> [k \in {} |-> ZeroValue],  \* c.store: key -> value, on the keys present
     log |-> <<>>,                        \* the Set calls made, <<key, value>> in order
     got |-> <<>>]                        \* <<key, value, ok>> of a Get that was the latest call

InitCache ==
    /\ NewWorkerPool /\ order = OrderOff /\ ~parentDone /\ taskBuffer = 0 /\ numWorkers = 1
    /\ cache = NewCache
    /\ bridge = "unused" /\ dowork = "unused" /\ dwbuf = "unused"
    /\ bucket = "unused" /\ retry = "unused" /\ trx = "unused"

\* cache.go:20  c.store[key] = value
Stored(store, k, v) ==
    [x \in (DOMAIN store) \cup {k} |-> IF x = k THEN v ELSE store[x]]

\* cache.go:19-21  Set(key, value)
CacheSet(k, v) ==
    /\ Len(cache.log) < MaxSets
    /\ cache' = [cache EXCEPT !.store = Stored(@, k, v),
                              !.log = Append(@, <<k, v>>),
                              !.got = <<>>]
    /\ UNCHANGED notCache

\* a lookup that takes a stored zero value for a missing key
LookupNonZero(store, k) ==
    IF k \in DOMAIN store /\ store[k] # ZeroValue
      THEN <<store[k], TRUE>> ELSE <<ZeroValue, FALSE>>

\* cache.go:31  v, ok := c.store[key]: the zero value and false when the
\* key is absent
Lookup(store, k) ==
    IF k \in DOMAIN store THEN <<store[k], TRUE>> ELSE <<ZeroValue, FALSE>>

\* cache.go:30-33  Get(key)
CacheGet(k) ==
    /\ LET r == Lookup(cache.store, k)
       IN cache' = [cache EXCEPT !.got = <<k, r[1], r[2]>>]
    /\ UNCHANGED notCache

NextCache ==
    \/ \E k \in Keys, v \in Values : CacheSet(k, v)
    \/ \E k \in Keys : CacheGet(k)

SpecCache == InitCache /\ [][NextCache]_vars

\* =============================================================== claims
\* ------------------------------------------------------------ helpers
\* the Results published for task t, and how many of them
ResultsFor(t) == {r \in BagToSet(published) : r.task = t}
RECURSIVE Copies(_, _)
Copies(S, B) ==
    IF S = {} THEN 0
    ELSE LET r == CHOOSE x \in S : TRUE IN CopiesIn(r, B) + Copies(S \ {r}, B)
PubCount(t) == Copies(ResultsFor(t), published)
\* the worker that ran task t has left the inner func() (pool.go:74-97)
Handled(t) == fnOut[t] # "none" /\ \A w \in WorkerIds : wtask[w] # t
\* the workers inside workerFunc
Executing == {w \in WorkerIds : wpc[w] = "exec"}
\* exactly one GracefulStop call was made, no Stop call, and the caller's
\* context was never cancelled
GracefulOnly == ops = <<"GracefulStop">> /\ ~parentDone
\* that call has returned
GracefulReturned == GracefulOnly /\ spc = "idle" /\ Alive
\* every call made is a Submit that returned true before GracefulStop was called
SubmittedBefore ==
    /\ \A t \in Tasks : cpc[t] \in {"none", "ret_true"}
    /\ accepted = gsAccepted

\* C1: result conservation under graceful drain.  When N tasks were
\* submitted with Submit returning true, GracefulStop was then called (no
\* Stop, no cancellation) and the consumer of GetResults has seen the result
\* stream closed, the consumer has read exactly N Results.
C1_Conservation ==
    (consumerClosed /\ GracefulOnly /\ SubmittedBefore)
        => BagCardinality(observed) = Cardinality(accepted)

\* C2: GracefulStop finishes all queued work.  Once GracefulStop has
\* returned (no Stop, no cancellation of the scope), the task function has
\* been invoked exactly once for every task whose Submit returned true
\* before GracefulStop was called.
C2_GracefulStopRunsAll ==
    GracefulReturned =>
        \A t \in gsAccepted : cpc[t] = "ret_true" => invoked[t] = 1

\* C3: cancellation is sticky for Submit.  A Submit call that started after
\* the lifecycle was cancelled ends only by returning false, and leaves the
\* task queue as it was.
C3_SubmitAfterCancel ==
    [][\A t \in Tasks :
         (cpc[t] = "submit_late" /\ cpc'[t] # cpc[t])
            => (cpc'[t] = "ret_false" /\ taskChan' = taskChan)]_vars

\* C4: on a pool constructed from an already-cancelled scope the task
\* function is never invoked.
C4_NeverInvokedWhenBornCancelled ==
    bornCancelled => \A t \in Tasks : invoked[t] = 0

\* C5: a SubmitWait call that starts after the lifecycle has been cancelled
\* returns the zero value with the cancellation error and does not put its
\* task on the task queue.
C5_SubmitWaitAfterCancel ==
    [][\A t \in Tasks :
         (cpc[t] = "none" /\ cpc'[t] \in {"sw_send", "ret_val"} /\ CtxDone)
            => /\ cpc'[t] = "ret_val"
               /\ cret'[t] = CancelResult
               /\ taskChan' = taskChan
               /\ t \notin accepted']_vars
\* a SubmitWait call made on a pool whose context was cancelled from the
\* start has returned the cancellation error without queueing its task
C5_Witness ==
    /\ bornCancelled
    /\ \E t \in Tasks :
          cpc[t] = "ret_val" /\ cret[t] = CancelResult /\ t \notin accepted

\* C6: no channel is ever closed twice, for every sequence of Stop and
\* GracefulStop calls and whatever is left in the two channels.
C6_NoDoubleClose == crashed # "close of closed channel"

\* C7: panic isolation.  For a task on which the task function panicked, at
\* most one Result is ever published, every Result published for it carries
\* a non-nil error and the zero value, and once the worker is done with the
\* task with the lifecycle not cancelled exactly one has been published.
C7_PanicIsolation ==
    \A t \in Tasks :
        fnOut[t] = "panic" =>
            /\ PubCount(t) <= 1
            /\ \A r \in ResultsFor(t) : r.Err # "nil" /\ r.Value = 0
            /\ (Handled(t) /\ ~CtxDone) => PubCount(t) = 1
\* a panicking task has been dealt with on a live pool and its one failure
\* Result is published
C7_Witness ==
    \E t \in Tasks :
        /\ fnOut[t] = "panic" /\ Handled(t) /\ ~CtxDone
        /\ PubCount(t) = 1
        /\ \E r \in ResultsFor(t) : r.Err = "panic in worker"

\* C8: a panic never terminates a worker.  A worker leaves its loop only
\* from its select, and only when the context is done or the task queue is
\* closed and drained.
C8_WorkerSurvivesPanic ==
    [][\A w \in WorkerIds :
         (wpc[w] # "done" /\ wpc'[w] = "done")
            => /\ wpc[w] = "select"
               /\ CtxDone \/ (taskClosed /\ taskChan = <<>>)]_vars
\* the only worker of a pool has recovered from a panic on one task and is
\* executing another task
C8_Witness ==
    /\ started /\ numWorkers = 1
    /\ \E t, u \in Tasks :
          /\ t # u
          /\ fnOut[t] = "panic" /\ Handled(t)
          /\ wpc[0] = "exec" /\ wtask[0] = u

\* C9: concurrency bound.  Start spawns exactly numWorkers workers, and at
\* every moment at most numWorkers task-function invocations are in progress.
C9_ConcurrencyBound ==
    started =>
        /\ Cardinality({w \in WorkerIds : wpc[w] # "unborn"}) = numWorkers
        /\ Cardinality(Executing) <= numWorkers
\* as many invocations in progress as there are workers, with more than one
\* worker
C9_Witness == started /\ numWorkers > 1 /\ Cardinality(Executing) = numWorkers

\* C10: the task function is invoked at most once per accepted task: no
\* task is invoked twice, only accepted tasks are invoked, and no two
\* workers hold the same task.
C10_AtMostOnce ==
    /\ \A t \in Tasks : invoked[t] <= 1 /\ (invoked[t] > 0 => t \in accepted)
    /\ \A w1, w2 \in WorkerIds :
          (w1 # w2 /\ wtask[w1] # 0) => wtask[w1] # wtask[w2]
\* two workers hold two different accepted tasks, each invoked once
C10_Witness ==
    \E w1, w2 \in WorkerIds :
        /\ w1 # w2 /\ wtask[w1] # 0 /\ wtask[w2] # 0
        /\ invoked[wtask[w1]] = 1 /\ invoked[wtask[w2]] = 1
\* ------------------------------------------------ helpers, C11 onwards
\* a call of Stop has returned (calls are made one after the other, and a
\* call that panicked never returns)
StopReturned ==
    \E i \in 1..Len(ops) : ops[i] = "Stop" /\ (i < Len(ops) \/ spc = "idle")
\* the latest Stop / GracefulStop call has returned
ShutdownReturned == ops # <<>> /\ spc = "idle"
\* the worker goroutines that are in their loop
Running == {w \in WorkerIds : wpc[w] \in {"select", "exec", "publish"}}
\* the (value, error) pair workerFunc returned for t, as the Result that
\* carries it
Returned(t) ==
    [Value |-> IF fnOut[t] = "ok" THEN t ELSE 0,
     Err |-> IF fnOut[t] = "ok" THEN "nil" ELSE "task error",
     task |-> t]
\* nothing was cancelled or shut down and GetResults was never read
Quiet == ~CtxDone /\ ops = <<>> /\ observed = EmptyBag
\* every other call made so far is a SubmitWait that came back with the
\* Result of its own task
SingleCaller(t) ==
    \A u \in Tasks \ {t} :
        cpc[u] = "none" \/ (cpc[u] = "ret_val" /\ cret[u].task = u)
\* the consumer has read one Result for every accepted task, none of which
\* panicked
Drained ==
    /\ BagCardinality(observed) = Cardinality(accepted)
    /\ \A t \in accepted : fnOut[t] \in {"ok", "err"}

\* C11: when Stop has returned every worker has terminated: no worker is in
\* its loop or inside the task function, and from then on the task function
\* is not invoked any more, so tasks left in the task queue are never run.
C11_StopEndsWorkers ==
    /\ [](StopReturned => (Running = {} /\ wg = 0))
    /\ [][StopReturned => invoked' = invoked]_vars
\* Stop has returned after some task was run, and a task is still queued
C11_Witness ==
    /\ StopReturned /\ taskChan # <<>>
    /\ \E t \in Tasks : invoked[t] = 1

\* C12: Stop terminates.  A call of Stop eventually returns; in the form a
\* finite run refutes: a call of Stop never ends in the run-time panic of a
\* second close, which ends the process before Stop returns.
C12_StopTerminates ==
    spc = "stop_wait" => crashed # "close of closed channel"

\* C13: GracefulStop terminates when the accepted tasks do not exceed the
\* capacity of the result stream.  In the form a finite run refutes: such a
\* call of GracefulStop never ends in the run-time panic of a second close.
C13_GracefulStopTerminates ==
    (spc \in {"gs_close", "gs_wait"} /\ Cardinality(accepted) <= taskBuffer)
        => crashed # "close of closed channel"

\* C14: after Stop has returned, and after GracefulStop has returned, the
\* result stream is closed; the consumer that ranges over GetResults ends
\* only on the closed stream, after reading every Result left in the buffer.
C14_ResultStreamClosed ==
    /\ ShutdownReturned => resultClosed
    /\ consumerClosed => (resultClosed /\ resultChan = <<>>)
\* a shutdown call has returned with Results still buffered in the closed
\* result stream, which the consumer has yet to read
C14_Witness ==
    ShutdownReturned /\ resultClosed /\ resultChan # <<>> /\ ~consumerClosed

\* C15: a Submit call that is blocked on the full task queue when the
\* lifecycle is cancelled (by Stop or through the caller's context) returns
\* false at that cancellation, without its task being accepted; no Submit
\* stays blocked on an open task queue past cancellation.
C15_BlockedSubmitCancelled ==
    /\ [](\A t \in Tasks : (Parked(t) /\ ~taskClosed) => ~CtxDone)
    /\ [][\A t \in Tasks :
            (Parked(t) /\ ~taskClosed /\ ~CtxDone /\ CtxDone')
               => (cpc'[t] = "ret_false" /\ t \notin accepted')]_vars
\* a Submit has returned false on a pool cancelled after its start, with the
\* buffered task queue still full and its task not accepted
C15_Witness ==
    /\ ~bornCancelled /\ CtxDone
    /\ taskBuffer > 0 /\ Len(taskChan) = taskBuffer
    /\ \E t \in Tasks : cpc[t] = "ret_false" /\ t \notin accepted

\* C16: a Submit call made after GracefulStop has closed the task queue
\* ends only by returning false: it does not panic and it leaves the task
\* queue as it was.
C16_SubmitAfterClose ==
    [][\A t \in Tasks :
         (cpc[t] = "submit_closed" /\ cpc'[t] # cpc[t])
            => (cpc'[t] = "ret_false" /\ taskChan' = taskChan)]_vars

\* C17: single-caller SubmitWait.  On a pool that was never cancelled or
\* shut down, with nobody reading GetResults and every earlier call a
\* SubmitWait that came back with its own Result, SubmitWait(t) returns
\* exactly the (value, error) pair the task function returned for t.
C17_SingleCallerSubmitWait ==
    \A t \in Tasks :
        (cpc[t] = "ret_val" /\ Quiet /\ SingleCaller(t)
                            /\ fnOut[t] \in {"ok", "err"})
            => cret[t] = Returned(t)
\* a second SubmitWait, made after the first one returned its own Result,
\* has returned the error the task function returned for its task
C17_Witness ==
    /\ Quiet
    /\ \E t \in Tasks :
          /\ cpc[t] = "ret_val" /\ SingleCaller(t)
          /\ \E u \in Tasks \ {t} : cpc[u] = "ret_val"
          /\ fnOut[t] = "err" /\ cret[t].Err = "task error"

\* C18: every SubmitWait call whose task was enqueued eventually returns,
\* also when Stop or GracefulStop closes the result stream meanwhile.  In
\* the form a finite run refutes: no SubmitWait call is left waiting for a
\* Result that its goroutine will never pass on.
C18_SubmitWaitReturns == \A t \in Tasks : cpc[t] # "hung"

\* C19: Results are verbatim.  Every published Result that does not stem
\* from a panic is the (value, error) pair the task function returned for
\* one accepted task and is published once; so when the consumer has read
\* one Result for each of N accepted tasks (no panic among them) and the
\* function returned an error for E of them, exactly E of the Results read
\* carry an error and N - E carry none.
C19_Verbatim ==
    /\ \A r \in BagToSet(published) :
          r.Err # "panic in worker" =>
              /\ r.task \in accepted
              /\ fnOut[r.task] \in {"ok", "err"}
              /\ r = Returned(r.task)
              /\ CopiesIn(r, published) = 1
    /\ Drained =>
          /\ Cardinality({r \in BagToSet(observed) : r.Err = "task error"})
                = Cardinality({t \in accepted : fnOut[t] = "err"})
          /\ Cardinality({r \in BagToSet(observed) : r.Err = "nil"})
                = Cardinality({t \in accepted : fnOut[t] = "ok"})
\* the consumer has read the Results of two accepted tasks, one with the
\* error of the task function and one without
C19_Witness ==
    /\ Drained /\ Cardinality(accepted) = 2
    /\ \E r1, r2 \in BagToSet(observed) :
          r1.Err = "task error" /\ r2.Err = "nil"

\* C20: the worker count stays positive.  In the configuration phase every
\* WithWorkers(n) leaves the count as it was when n <= 0 and sets it to n
\* when n > 0, and the count is at least 1 at all times.
C20_WorkerCountPositive ==
    /\ [](numWorkers >= 1)
    /\ [][~started' =>
            numWorkers' = (IF wwArg' > 0 THEN wwArg' ELSE numWorkers)]_vars
\* WithWorkers was last called with a negative count on a pool whose count
\* an earlier call had set to more than one
C20_Witness == ~started /\ wwArg < 0 /\ numWorkers > 1
\* ------------------------------------------------ helpers, C21 onwards
IsPrefix(a, b) == Len(a) <= Len(b) /\ SubSeq(b, 1, Len(a)) = a
\* the values written to inner channel i so far, in order
Written(i) == [k \in 1..bridge.wrote[i] |-> Val(i, k)]
\* the values written to the first n inner channels, channel after channel
RECURSIVE FlatUpTo(_)
FlatUpTo(n) == IF n = 0 THEN <<>> ELSE FlatUpTo(n - 1) \o Written(n)

\* C21: with done never closed, what has been read from Bridge's output is
\* at all times a prefix of the values of the inner channels received from
\* chanStream, in the order the channels arrived and in each channel's own
\* order (so every value at most once); and the output is closed only with
\* chanStream closed, every received inner channel closed and drained, and
\* every value written to them read from the output.
C21_BridgeInOrder ==
    ~bridge.done =>
        /\ IsPrefix(bridge.out, FlatUpTo(bridge.nsent))
        /\ bridge.pc = "closed" =>
              /\ bridge.streamClosed
              /\ \A i \in 1..bridge.nsent :
                    bridge.iclosed[i] /\ bridge.ibuf[i] = <<>>
              /\ bridge.out = FlatUpTo(bridge.nsent)
\* Bridge has closed its output after passing on all the values of all the
\* inner channels, with done open
C21_Witness ==
    /\ ~bridge.done /\ bridge.pc = "closed"
    /\ bridge.nsent = MaxChans
    /\ Len(bridge.out) = MaxChans * MaxVals

\* C22: once done is closed the output of Bridge is eventually closed,
\* whatever is left in chanStream and in the inner channel and whether or
\* not anybody reads the output.
C22_ClosedAfterDone == bridge.done ~> (bridge.pc = "closed")
\* Bridge has closed its output after done was closed while it held a value
\* nobody read, with a value left in the inner channel and the producer not
\* finished with chanStream
C22_Witness ==
    /\ bridge.done /\ bridge.pc = "closed"
    /\ bridge.val # 0
    /\ bridge.cur # 0 /\ bridge.ibuf[bridge.cur] # <<>>
    /\ ~bridge.streamClosed /\ bridge.nsent < MaxChans

\* C23: an orDone that is called with done already closed never delivers a
\* value on the channel it returns, even with values buffered in its source
\* and a reader waiting.
C23_NoDeliveryWhenBornDone ==
    [][~(/\ bridge.olate
         /\ bridge.opc = "send" /\ bridge.pc = "range"
         /\ bridge'.pc = "send")]_vars
\* the values 1..n in order
UpTo(n) == [j \in 1..n |-> j]

\* C24: with done never closed, DoWork calls processor once for each value
\* it receives, one call at a time and in input order (the calls made so far
\* are a prefix of the values written), and the completed channel is closed
\* only with the input channel closed and drained and the processor called
\* and returned for every value.
C24_DoWorkInOrder ==
    ~dowork.done =>
        /\ IsPrefix(dowork.invoked, UpTo(dowork.wrote))
        /\ dowork.pc = "closed" =>
              /\ dowork.inClosed /\ dowork.inp = <<>>
              /\ dowork.invoked = UpTo(dowork.wrote)
\* completed is closed after every value was processed, with done open
C24_Witness ==
    /\ ~dowork.done /\ dowork.pc = "closed"
    /\ dowork.invoked = UpTo(MaxInputs)

\* C25: when done is already closed at the call of DoWork, processor is
\* never called, whatever the input channel holds.
C25_NoWorkWhenBornDone == dowork.bornDone => dowork.invoked = <<>>

\* C26: DoWorkBuffered never has more than `workers` calls of processor in
\* progress.
C26_BufferedBound == dwbuf.running <= dwbuf.workers
\* as many calls of processor in progress as there are slots, more than one,
\* with a further value waiting for a slot and done closed
C26_Witness ==
    /\ dwbuf.workers > 1 /\ dwbuf.running = dwbuf.workers
    /\ dwbuf.pc = "acquire" /\ dwbuf.done
\* C27: LeakyBucket admission.  An Allow call returns true exactly when
\* fewer than `capacity` requests are queued and then queues one more, and
\* leaves the queue alone otherwise; the queue never holds more than
\* `capacity` requests; and the Allow calls that returned true since the
\* latest tick are at most `capacity` minus what was queued after that tick.
C27_Admission ==
    /\ [](/\ bucket.q <= bucket.capacity
          /\ bucket.sinceTick <= bucket.q
          /\ bucket.sinceTick
                <= bucket.capacity - (bucket.q - bucket.sinceTick))
    /\ [][bucket'.nAllow = bucket.nAllow + 1 =>
            /\ bucket'.lastRet = (bucket.q < bucket.capacity)
            /\ bucket'.q = IF bucket.q < bucket.capacity
                             THEN bucket.q + 1 ELSE bucket.q]_vars
\* an Allow call was refused on a full bucket of capacity above one that
\* was filled without a tick
C27_Witness ==
    /\ bucket.capacity > 1 /\ bucket.q = bucket.capacity
    /\ bucket.sinceTick = bucket.capacity
    /\ bucket.lastRet = FALSE

\* C28: LeakyBucket leak.  While the bucket is not stopped a tick removes
\* exactly one queued request when the queue is non-empty and changes
\* nothing when it is empty; and the Allow call that follows a tick on a
\* full bucket returns true.
C28_Leak ==
    /\ [][(bucket'.nTick = bucket.nTick + 1 /\ ~bucket.stopped) =>
            bucket'.q = IF bucket.q > 0 THEN bucket.q - 1 ELSE 0]_vars
    /\ [][(bucket'.nAllow = bucket.nAllow + 1 /\ bucket.afterFullTick) =>
            bucket'.lastRet = TRUE]_vars
\* a full bucket of capacity above one has leaked one request on a tick and
\* the Allow call after it has filled the bucket again
C28_Witness ==
    /\ bucket.capacity > 1 /\ ~bucket.stopped
    /\ bucket.nTick = 1 /\ bucket.nAllow = bucket.capacity + 1
    /\ bucket.sinceTick = 1 /\ bucket.q = bucket.capacity
    /\ bucket.lastRet = TRUE
\* the first k invocations of operation all failed
AllFailed(k) == \A i \in 1..k : ~retry.outs[i]

\* C29: Retry with MaxAttempts = n >= 1 and a context that is not
\* cancelled invokes operation at most n times, makes no invocation after
\* it returned, and returns either the value of the first successful
\* invocation with a nil error or, after n failures, the error of the n-th
\* invocation.
C29_RetryAttempts ==
    /\ []((retry.max >= 1 /\ ~retry.cancelled) =>
            /\ retry.calls <= retry.max
            /\ retry.pc = "ret" =>
                 \/ /\ retry.ret = [val |-> Result(retry.calls), err |-> NilErr]
                    /\ retry.calls >= 1
                    /\ retry.outs[retry.calls]
                    /\ AllFailed(retry.calls - 1)
                 \/ /\ retry.calls = retry.max
                    /\ AllFailed(retry.max)
                    /\ retry.ret.err = OpErr(retry.max))
    /\ [][retry.pc = "ret" => retry'.calls = retry.calls]_vars
\* without a cancellation the last of MaxAttempts invocations succeeded
\* after the others failed
C29_Witness ==
    /\ ~retry.cancelled /\ retry.pc = "ret"
    /\ retry.max = MaxAttempts /\ retry.calls = MaxAttempts
    /\ retry.ret = [val |-> Result(MaxAttempts), err |-> NilErr]

\* the context was cancelled during the call, before the final attempt began
CancelledBeforeFinal ==
    /\ retry.cancelled /\ retry.cPc # "ret" /\ retry.max >= 1
    /\ \/ retry.cAttempt < retry.max
       \/ retry.cPc = "check"

\* C30 as stated: once the context is cancelled operation is not invoked
\* again, and a cancellation before the final attempt makes Retry return
\* the context's error.
C30_NoInvokeAfterCancel ==
    /\ [][retry.cancelled => retry'.calls = retry.calls]_vars
    /\ []((retry.pc = "ret" /\ CancelledBeforeFinal) =>
            retry.ret.err = CtxErr)

\* C30 amended: after the cancellation Retry begins at most one invocation,
\* the one whose context check had already passed when the context was
\* cancelled; and when the cancellation came before the final attempt,
\* Retry returns the context's error, or the value and nil error of the
\* invocation that was about to begin or running when the context was
\* cancelled; never the error of a failed invocation.
C30_CancelStopsRetry ==
    /\ [][(retry.cancelled /\ retry'.calls # retry.calls) =>
            /\ retry.cPc = "invoke"
            /\ retry.cCalls = retry.calls]_vars
    /\ []((retry.pc = "ret" /\ CancelledBeforeFinal) =>
            \/ retry.ret.err = CtxErr
            \/ /\ retry.cPc \in {"invoke", "op"}
               /\ retry.calls = retry.cCalls
                                  + (IF retry.cPc = "invoke" THEN 1 ELSE 0)
               /\ retry.outs[retry.calls]
               /\ retry.ret = [val |-> Result(retry.calls), err |-> NilErr])
\* the context was cancelled while the second of three attempts was
\* running, the attempt failed and Retry returned the context's error
\* after two invocations
C30_Witness ==
    /\ retry.pc = "ret" /\ retry.max = MaxAttempts
    /\ retry.cancelled /\ retry.cPc = "op" /\ retry.cAttempt = 2
    /\ retry.calls = 2 /\ retry.ret.err = CtxErr
\* C38: when the completed channel of DoWorkBuffered is closed no processor
\* invocation that DoWorkBuffered started is still running.
C38_CompletedMeansIdle == dwbuf.pc = "closed" => dwbuf.running = 0

\* C39: Retry returns a nil error only if some invocation of operation
\* returned a nil error, whatever MaxAttempts is.
C39_NilOnlyAfterSuccess ==
    (retry.pc = "ret" /\ retry.ret.err = NilErr) =>
        \E i \in 1..Len(retry.outs) : retry.outs[i]
\* C31 as stated: a call of Do that began a transaction returns f's result
\* with a nil error when f returned a nil error, and a nil result with f's
\* error when f returned an error.
C31_DoReturnsWhatFReturned ==
    (trx.pc = "ret" /\ trx.cBegan) =>
        /\ trx.cF = "ok" => trx.ret = [res |-> "res", err |-> "nil"]
        /\ trx.cF = "err" => trx.ret = [res |-> "nil", err |-> "f"]

\* C31 amended: a call of Do that returns has called exactly one of Commit
\* and Rollback, once, on the transaction it began: Commit and never
\* Rollback when f returned a nil error, returning f's result with a nil
\* error if Commit succeeded and a nil result with the commit error if it
\* failed; Rollback and never Commit when f returned an error, returning a
\* nil result with f's error if Rollback succeeded and with an error made
\* of both if it failed.  When BeginTx fails f is not called, nothing is
\* committed or rolled back and Do returns a nil result with the begin
\* error.  Between calls every transaction begun was committed or rolled
\* back.
C31_DoEndsTransaction ==
    /\ trx.pc = "ret" =>
         /\ ~trx.cBegan =>
              /\ trx.cF = "none" /\ trx.cCommits = 0 /\ trx.cRollbacks = 0
              /\ trx.ret = [res |-> "nil", err |-> "begin"]
         /\ trx.cBegan =>
              /\ trx.cCommits + trx.cRollbacks = 1
              /\ trx.cF \in {"ok", "err"}
              /\ trx.cF = "ok" =>
                   /\ trx.cCommits = 1
                   /\ trx.ret = IF trx.cEndFailed
                                  THEN [res |-> "nil", err |-> "commit"]
                                  ELSE [res |-> "res", err |-> "nil"]
              /\ trx.cF = "err" =>
                   /\ trx.cRollbacks = 1
                   /\ trx.ret = [res |-> "nil",
                                 err |-> IF trx.cEndFailed
                                           THEN "rollback+f" ELSE "f"]
    /\ trx.pc \in {"idle", "ret"} =>
         trx.begun = trx.commits + trx.rollbacks
\* the last of MaxDo calls returned after rolling back, and earlier calls
\* committed and failed to begin
C31_Witness ==
    /\ trx.pc = "ret" /\ trx.ndo = MaxDo
    /\ trx.cBegan /\ trx.cF = "err" /\ trx.cRollbacks = 1
    /\ trx.commits = 1 /\ trx.begun = 2
\* the positions of the Set calls made for key k
SetsOf(k) == {i \in 1..Len(cache.log) : cache.log[i][1] = k}
\* what Get(k) is to return after the Set calls made so far
LatestSet(k) ==
    IF SetsOf(k) = {} THEN <<ZeroValue, FALSE>>
    ELSE LET last == CHOOSE i \in SetsOf(k) : \A j \in SetsOf(k) : j <= i
         IN <<cache.log[last][2], TRUE>>

\* C32: Cache.  After any sequence of Set calls Get(k) returns the value of
\* the most recent Set for k with true, a stored zero value included, and
\* the zero value with false if k was never set; and Set(k, v) does not
\* change what Get returns for any other key.
C32_CacheGetLatest ==
    /\ [](cache.got # <<>> =>
            <<cache.got[2], cache.got[3]>> = LatestSet(cache.got[1]))
    /\ [][Len(cache'.log) = Len(cache.log) + 1 =>
            \A k \in Keys \ {cache'.log[Len(cache'.log)][1]} :
                Lookup(cache'.store, k) = Lookup(cache.store, k)]_vars
\* Get returned a zero value stored over a non-zero one, with true, after
\* a Set for another key
C32_Witness ==
    /\ Len(cache.log) = MaxSets
    /\ cache.log[1] = <<1, MaxVal>> /\ cache.log[2] = <<1, ZeroValue>>
    /\ cache.log[3][1] = 2
    /\ cache.got = <<1, ZeroValue, TRUE>>
\* C33: once the lifecycle is cancelled no worker dequeues a task: a worker
\* at its select while the cancellation is visible does not go on to run a
\* task, even when the task queue is non-empty.
C33_NoDequeueAfterCancel ==
    [][CtxDone =>
         \A w \in WorkerIds : ~(wpc[w] = "select" /\ wpc'[w] = "exec")]_vars

\* C34: Stop and GracefulStop never remove a Result from the result stream.
C34_ShutdownKeepsResults == probedResults = {}

\* the SubmitWait calls that were returned the Result r
ReturnedTo(r) == {t \in Tasks : cpc[t] = "ret_val" /\ cret[t] = r}
\* SubmitWait(t) was returned a Result
GotResult(t) == cpc[t] = "ret_val" /\ cret[t] # CancelResult

\* C35: SubmitWait has no per-call correlation.  What a SubmitWait call
\* returns is the next Result on the result stream, whichever task it
\* belongs to: a Result some worker published, which no other SubmitWait
\* call and no GetResults consumer is given as well (the witness is the
\* execution in which it is the Result of another caller's task).
C35_NoCorrelation ==
    \A t \in Tasks :
        GotResult(t) =>
            /\ BagIn(cret[t], published)
            /\ cret[t].task \in accepted
            /\ Cardinality(ReturnedTo(cret[t])) + CopiesIn(cret[t], observed)
                  <= CopiesIn(cret[t], published)
\* two SubmitWait calls have returned, each with the Result of the task of
\* the other
C35_Witness ==
    \E t, u \in Tasks :
        /\ t # u /\ GotResult(t) /\ GotResult(u)
        /\ cret[t].task = u /\ cret[u].task = t

\* the result stream has no room and is open, and nothing is cancelled
ResultsFull == ~CtxDone /\ ~resultClosed /\ Len(resultChan) >= taskBuffer

\* C36: result backpressure.  While the lifecycle is not cancelled a worker
\* whose Result cannot be published because the result stream is full keeps
\* that Result and its position (it neither drops the Result nor dequeues
\* another task) in every step, except the step in which a reader takes
\* that Result from it.
C36_Backpressure ==
    [][\A w \in WorkerIds :
         (wpc[w] = "publish" /\ ResultsFull) =>
            \/ /\ wpc'[w] = "publish"
               /\ wres'[w] = wres[w] /\ wtask'[w] = wtask[w]
            \/ /\ published' = published (+) SetToBag({wres[w]})
               /\ resultChan' = resultChan
               /\ \/ observed' = observed (+) SetToBag({wres[w]})
                  \/ \E t \in Tasks : cret'[t] = wres[w] /\ cret[t] # wres[w]]_vars
\* a worker holds the Result of the second task while the Result of the
\* first fills the result stream of capacity one, and nothing is cancelled
C36_Witness ==
    /\ taskBuffer = 1 /\ ResultsFull /\ Len(resultChan) = 1
    /\ \E w \in WorkerIds : wpc[w] = "publish" /\ wres[w] # NoResult
\* C37: with one worker and no cancellation the Results enter the result
\* stream in the order in which their tasks entered the task queue.
C37_FifoEndToEnd ==
    (numWorkers = 1 /\ ~CtxDone /\ ops = <<>>) =>
        IsPrefix(order.pub, order.enq)
\* the task of the second call was enqueued before the task of the first,
\* and the Results of both were published in that order
C37_Witness ==
    /\ numWorkers = 1 /\ ~CtxDone /\ ops = <<>>
    /\ Len(order.enq) = MaxTasks /\ order.enq[1] = MaxTasks
    /\ order.pub = order.enq
=============================================================================
